--------------------------- MODULE MCRtmpCommands ---------------------------
(* Packets of every class for RtmpCommands.                                  *)
EXTENDS RtmpCommands

P(class, values) == [class |-> class, values |-> values]
S(name) == String(name)

Word == S(<<104, 105>>)
Flags == Object(<<[name |-> <<102>>, value |-> Boolean(TRUE)]>>)
Status == Object(<<[name |-> Name.code, value |-> Word]>>)
Items == EcmaArray(1, <<[name |-> <<102>>, value |-> Zero]>>)

MCPackets ==
    {P("Packet", <<>>)}
    \cup {P("ConnectApp", <<S(Name.connect), One, o, args>>) : o \in {Object(<<>>), Flags}, args \in {None, Flags}}
    \cup {P("ConnectAppRes", <<S(Name.result), One, Flags, Flags>>)}
    \cup {P(c, <<Raw(<<0, 1, 2, 3>>)>>) : c \in {"SetWindowAckSize", "SetChunkSize", "Acknowledgement"}}
    \cup {P("Play", <<S(Name.play), Zero, Null, Word, start, duration, Boolean(reset)>>) :
             start \in {MinusTwo, One}, duration \in {MinusOne, Zero}, reset \in BOOLEAN}
    \cup {P("PlayRes", <<S(Name.result), Zero, Null, Status>>)}
    \cup {P("SetPeerBandwidth", <<Raw(<<0, 1, 2, 3>>), Raw(<<2>>)>>)}
    \cup {P("UserControl", <<SetBufferLength, Raw(<<0, 0, 0, 9>>), Raw(<<0, 0, 3, 232>>)>>)}
    \cup {P("UserControl", <<event, Raw(<<0, 0, 0, 9>>), Raw(<<0, 0, 0, 0>>)>>) :
             event \in {Raw(<<0, 6>>), FmsEvent0}}
    \cup {P("CreateStream", <<S(Name.createStream), Two, Null>>)}
    \cup {P("CreateStreamRes", <<S(Name.result), Two, Null, One>>)}
    \cup {P("FMLEStart", <<S(name), Two, Null, Word>>) :
             name \in {Name.releaseStream, Name.FCPublish, Name.FCUnpublish}}
    \cup {P("FMLEStartRes", <<S(Name.result), Two, Null, Undefined>>)}
    \cup {P("Publish", <<S(Name.publish), Zero, Null, Word, S(type)>>) : type \in {<<>>, <<114>>}}
    \cup {P("Pause", <<S(Name.pause), Zero, Null, Boolean(flag), One>>) : flag \in BOOLEAN}
    \cup {P("OnStatusCall", <<S(Name.onStatus), Zero, Null, Status>>)}
    \cup {P("OnMetaData", <<S(Name.onMetaData), data>>) :
             data \in {Flags, Items, Date(Two.bits, <<0, 0>>), StrictArray(1, <<Null>>)}}
    \cup {P("Bandwidth", <<S(name), Zero, Null, Object(<<>>)>>) : name \in {Name.finished, Name.playing}}
    \cup {P("CloseStream", <<S(Name.closeStream), Zero, Null>>)}
    \cup {P("Call", <<S(<<104>>), One, o, args>>) : o \in {Null, Zero}, args \in {None, Word}}
    \cup {P("CallRes", <<S(Name.result), One, None, Word>>)}
    \cup {P("OnCustomAmfData", <<S(<<104>>)>>)}

\* What may follow: bytes that are markers, and a length that is negative.
MCTails == {<<>>} \cup UNION {[1..n -> {0, 2, 3, 9, 255}] : n \in 1..2}

MCTables == {<<>>, [bits \in {One.bits} |-> Name.connect], [bits \in {Two.bits} |-> Name.FCPublish]}
=============================================================================
