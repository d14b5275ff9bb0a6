-------------------------- MODULE HttpsRecordParse --------------------------
(***************************************************************************)
(* HttpsRecordParser::Parse called on every record of a bounded set, and   *)
(* what its result is compared with.                                       *)
(***************************************************************************)
EXTENDS HttpsRecord

CONSTANT Params,        \* parameters that records may carry
         MaxParams      \* bound on the parameters of a record

ASSUME ParamsAssumption == Params \subseteq Param /\ MaxParams \in Nat

VARIABLES raw, parsed

ParseInit ==
    /\ raw \in [priority : {"short", "alias", "service"},
                target : {"short", "self", "other"},
                params : UNION {[1..n -> Params] : n \in 0..MaxParams}]
    /\ parsed = NoResult

CallParse == parsed' = Parse(raw) /\ raw' = raw

ParseNext == CallParse

ParseSpec == ParseInit /\ [][ParseNext]_<<raw, parsed>>

-----------------------------------------------------------------------------
\* The parameters in front of the first one that cannot be read.
Readable(params) ==
    {i \in DOMAIN params : \A j \in 1..i : params[j] # Truncated}

Values(params, key) ==
    {params[i].value : i \in {j \in Readable(params) : params[j].key = key}}

LastValue(params, key, usable) ==
    LET at == {i \in Readable(params) : params[i].key = key /\ params[i].value \in usable}
    IN  IF at = {} THEN {} ELSE params[Max(at)].value

(***************************************************************************)
(* The parser reads the record the way its format says: lists are the      *)
(* union of their readable parameters, the last configuration and the last *)
(* complete port win, and an unsupported mandatory key anywhere among the  *)
(* readable parameters makes the record invalid, data read before it       *)
(* included.                                                               *)
(***************************************************************************)
ParsesAsSpecified ==
    [][LET p == raw.params
           usable == raw.priority = "service" /\ raw.target # "short"
       IN /\ parsed'.valid <=>
               usable /\ UNION Values(p, "mandatory") \subseteq SupportedKeys
          /\ usable =>
               /\ parsed'.ech_config = LastValue(p, "echconfig", SUBSET Atom)
               /\ parsed'.alpn = UNION Values(p, "alpn")
               /\ parsed'.ipv4_hints = UNION Values(p, "ipv4hint")
               /\ parsed'.ipv6_hints = UNION Values(p, "ipv6hint")
               /\ parsed'.port = LastValue(p, "port", (SUBSET Atom) \ {{}})
               /\ parsed'.alternative_service <=> raw.target = "other"
          /\ ~usable => parsed' = NoResult]_<<raw, parsed>>

\* The record with its i-th and j-th parameters exchanged.
Swapped(r, i, j) ==
    [r EXCEPT !.params = [@ EXCEPT ![i] = r.params[j], ![j] = r.params[i]]]

(***************************************************************************)
(* The order of parameters with different keys does not matter to a record *)
(* that can be read to its end: mandatory may come first or last.          *)
(***************************************************************************)
OrderIsIrrelevant ==
    [][\A i, j \in DOMAIN raw.params :
         /\ Readable(raw.params) = DOMAIN raw.params
         /\ \A k, l \in DOMAIN raw.params :
              k # l => raw.params[k].key # raw.params[l].key
         => Parse(Swapped(raw, i, j)) = parsed']_<<raw, parsed>>
=============================================================================
