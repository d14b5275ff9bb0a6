----------------------------- MODULE MCReaders ------------------------------
(***************************************************************************)
(* The readers of data from outside: the HTTPS record parser, called on    *)
(* every record of up to three parameters, or the loop over configuration  *)
(* lists, on lists cut off at every byte.                                  *)
(***************************************************************************)
EXTENDS HttpsRecordParse, ECHWire

P(key, value) == [key |-> key, value |-> value]

MCAtom == {"h3", "e1", "e2", "a1", "p1", "alpn", "unknown"}

MCParams ==
    { P("mandatory", {"alpn"}), P("mandatory", {"unknown"}), P("mandatory", {}),
      P("alpn", {"h3"}), P("echconfig", {"e1"}), P("echconfig", {}),
      P("ipv4hint", {"a1"}), P("ipv6hint", {"a1"}), P("port", {}), P("port", {"p1"}),
      P("unknown", {"e2"}), Truncated }

\* Drafts 13, 12 and 10; accepted contents one of which begins another, rejected
\* contents that look like a configuration, and empty ones.
Configs ==
    [version : {65037, 65036, 65034},
     contents : {<<7>>, <<7, 8>>, <<254, 13, 0, 1, 7>>, <<>>}]

MCKey == {<<7>>, <<7, 8>>}

MCGarbage == <<0>>

MCSource == UNION {[1..n -> Configs] : n \in 0..2}

NoRecord == [priority |-> "short", target |-> "short", params |-> <<>>]

ReadersInit ==
    \/ /\ source = <<>> /\ framing = "bare" /\ versions = AnyVersion
       /\ WireInit /\ ParseInit
    \/ raw = NoRecord /\ parsed = NoResult /\ WireInit

ReadersNext ==
    \/ ParseNext /\ UNCHANGED wireVars
    \/ WireNext /\ UNCHANGED <<raw, parsed>>

ReadersSpec == ReadersInit /\ [][ReadersNext]_<<raw, parsed, wireVars>>
=============================================================================
