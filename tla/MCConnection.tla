------------------------------ MODULE MCConnection ------------------------------
(* Requests for the model checking of Connection: every route, contents on both *)
(* sides of each condition of the parsers, lengths that lie, and a head without *)
(* a version.                                                                    *)
EXTENDS Connection

Request(route, type, content) ==
    [line |-> "ok", route |-> route, type |-> type, content |-> content,
     transport |-> <<>>, body |-> 1, content_length |-> 1, breaks |-> FALSE]
Bare(route) == [Request(route, "none", Nothing) EXCEPT !.body = 0, !.content_length = 0]
Text(volume, progress) ==
    Request("SET_PARAMETER", "text", [kind |-> "text", volume |-> volume, progress |-> progress])
Numbers(route, ns) == Request(route, "plist", [kind |-> "numbers", numbers |-> ns])
Sdp(key, rate) ==
    Request("ANNOUNCE", "sdp", [kind |-> "sdp", fpaeskey |-> key, aesiv |-> "bytes",
                                rate |-> rate, payload |-> 0])
Fp(bytes, version, mode) ==
    Request("POST /fp-setup", "none",
            [kind |-> "fp", bytes |-> bytes, version |-> version, mode |-> mode, message |-> "m"])
StreamSetup(streams, rate) ==
    Request("SETUP", "plist", [kind |-> "stream", streams |-> streams, format |-> 4,
                               payload |-> 0, rate |-> rate, port |-> 65537])
Keys(ekey) ==
    Request("SETUP", "plist", [kind |-> "keys", eiv |-> FALSE, ekey |-> ekey, group |-> FALSE])

MCInitialVolume == -2000

MCRequests ==
    {Bare("RECORD"), Bare("TEARDOWN"), Bare("PAUSE"), Bare("other"),
     [Bare("SETUP") EXCEPT !.transport = <<6001>>],
     Text(<<-14400>>, <<5, 3, 9>>), Text(<<500>>, <<2, 6, 9>>),
     Numbers("POST /command", <<20000, 50>>), Numbers("SET_PARAMETER", <<-1200>>),
     Sdp("bytes", 0), Sdp("absent", 48000), StreamSetup(TRUE, 0), StreamSetup(FALSE, 48000),
     Keys(TRUE), Fp(16, 2, 200), Fp(16, 3, 4), Fp(164, 3, 0),
     Request("SET_PARAMETER", "dmap", [kind |-> "dmap"]),
     [Bare("RECORD") EXCEPT !.line = "bad"],
     [Request("OPTIONS", "none", Nothing) EXCEPT !.content_length = 0],
     [Request("OPTIONS", "none", Nothing) EXCEPT !.content_length = 0, !.breaks = TRUE],
     [Request("OPTIONS", "none", Nothing) EXCEPT !.content_length = 2],
     [Bare("OPTIONS") EXCEPT !.content_length = 30],
     [Bare("OPTIONS") EXCEPT !.content_length = 62]}
=============================================================================
