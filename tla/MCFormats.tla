------------------------------- MODULE MCFormats -------------------------------
(***************************************************************************)
(* The readers and writers of formats, and the digest of the FairPlay self  *)
(* test beside them, for model checking.                                    *)
(***************************************************************************)
EXTENDS Readers, ModifiedMd5

(* Objects of every type, well formed or not: truncated, with a count that  *)
(* makes the end of the object wrap, or that refer to themselves.           *)
MCObjects ==
    {<<0>>, <<9>>, <<16, 5>>, <<31>>, <<81, 97>>, <<95>>, <<97, 0, 98>>, <<65, 7>>,
     <<79, 17, 255, 250>>, <<79, 16, 100>>, <<111, 17, 128, 0>>, <<95, 17, 255, 240>>,
     <<34, 1, 2, 3, 4>>, <<162, 1, 2>>, <<161, 9>>, <<209, 1, 2>>,
     <<210, 1, 1, 2, 0>>, <<223, 16, 200>>, <<175, 16, 1, 2>>}
MCDocuments ==
    {Document(<<x, y, z>>, 1, 3, 0) : x, y, z \in MCObjects}
    \cup {Document(<<<<161, 1>>, <<81, 97>>>>, r, n, t) :
             r \in {0, 1, 2}, n \in {0, 2, 3, 5000}, t \in {0, 1, 7}}
    \cup {<<>>, Magic}

Advert(n, txt, ips) ==
    [raop |-> Name(98, n) \o <<46>> \o kRaopServiceType,
     airplay |-> Name(66, 2) \o <<46>> \o kAirPlayServiceType,
     host |-> <<104, 46, 108>>, port |-> 7000, txt |-> txt, ips |-> ips]
MCAdverts ==
    {Advert(n, txt, ips) :
        n \in {3, 63, 64},
        txt \in {<<>>, <<<<>>, <<97>>>>, <<Name(97, 256)>>},
        ips \in {<<<<1, 2, 3, 4>>>>, <<<<1, 2, 3, 4>>, <<5, 6, 7, 8>>>>}}

(* Packets cut off in every place, pointers to themselves or behind the     *)
(* packet, and a chain of nine pointers.                                    *)
MCBodies ==
    {<<>>, <<192>>, <<192, 12>>, <<192, 255>>, <<1, 97, 192, 12>>, <<1, 97, 192, 14>>,
     <<64, 0>>, <<63, 97>>, <<1, 97, 0, 0, 12, 0>>,
     <<1, 97, 0, 0, 12, 0, 1, 0, 0, 0, 0, 0, 2, 192, 12>>,
     <<0, 0, 33, 0, 1, 0, 0, 0, 0, 0, 6, 0, 0, 0, 0, 0, 9>>,
     <<0, 0, 1, 0, 1, 0, 0, 0, 0, 0, 9>>,
     <<192, 14, 192, 16, 192, 18, 192, 20, 192, 22, 192, 24, 192, 26, 192, 28, 0, 0, 12, 0, 1>>}
MCOdd ==
    {Header(q, a) \o body : q, a \in {0, 1, 2}, body \in MCBodies}
    \cup {<<>>, <<0, 0, 0, 0, 0, 1>>}

Init ==
    \/ ReadersInit /\ Md5Idle
    \/ ReadersIdle /\ Md5Init

Next ==
    \/ ReadersNext /\ UNCHANGED md5Vars
    \/ Md5Next /\ UNCHANGED readersVars

Spec == Init /\ [][Next]_<<readersVars, md5Vars>>
=============================================================================
