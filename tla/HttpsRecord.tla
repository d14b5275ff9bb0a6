---------------------------- MODULE HttpsRecord -----------------------------
(***************************************************************************)
(* HttpsRecordParser, host_resolver_manager.cc:45-334: how one DNS HTTPS   *)
(* record is read.                                                         *)
(*                                                                         *)
(* A raw record is its priority, its target and its parameters, each as    *)
(* the reads of the parser find them: "short" where too few bytes are      *)
(* left.  The value of a parameter is the set of what it lists: protocol   *)
(* names, key names, addresses; at most one configuration or port.  The    *)
(* order and the bytes of a value matter to nothing that uses it.          *)
(***************************************************************************)
EXTENDS Integers, SequencesExt

CONSTANT Atom       \* what parameter values consist of

ParamKey == {"mandatory", "alpn", "echconfig", "ipv4hint", "ipv6hint", "port", "unknown"}

\* Bytes that ParseOneParam cannot read as a parameter.
Truncated == [key |-> "truncated", value |-> {}]

Param == [key : ParamKey, value : SUBSET Atom] \cup {Truncated}

RawRecord == [priority : {"short", "alias", "service"},
              target : {"short", "self", "other"},
              params : Seq(Param)]

\* Line 322; SvcParamKeyToString names any other key differently.
SupportedKeys == {"alpn", "echconfig", "ipv4hint", "ipv6hint", "port"}

NoResult ==
    [valid |-> FALSE, ech_config |-> {}, alpn |-> {}, ipv4_hints |-> {},
     ipv6_hints |-> {}, port |-> {}, mandatory_keys |-> {},
     alternative_service |-> FALSE]

-----------------------------------------------------------------------------
\* Faulty variants of ParseOneParam: the first configuration wins; the mandatory
\* list starts the result afresh, as if it always came first.
ParseOneParamKeepsFirst(result, param) ==
    CASE param.key = "mandatory" -> [result EXCEPT !.mandatory_keys = @ \cup param.value]
      [] param.key = "alpn"      -> [result EXCEPT !.alpn = @ \cup param.value]
      [] param.key = "echconfig" /\ result.ech_config = {} ->
           [result EXCEPT !.ech_config = param.value]
      [] param.key = "ipv4hint"  -> [result EXCEPT !.ipv4_hints = @ \cup param.value]
      [] param.key = "ipv6hint"  -> [result EXCEPT !.ipv6_hints = @ \cup param.value]
      [] param.key = "port" /\ param.value # {} -> [result EXCEPT !.port = param.value]
      [] OTHER -> result

ParseOneParamStartsAfresh(result, param) ==
    CASE param.key = "mandatory" -> [NoResult EXCEPT !.mandatory_keys = param.value]
      [] param.key = "alpn"      -> [result EXCEPT !.alpn = @ \cup param.value]
      [] param.key = "echconfig" -> [result EXCEPT !.ech_config = param.value]
      [] param.key = "port" /\ param.value # {} -> [result EXCEPT !.port = param.value]
      [] OTHER -> result

\* Lists accumulate over repeated parameters; a repeated configuration
\* replaces the one before, even by nothing; a port too short is ignored.
ParseOneParam(result, param) ==
    CASE param.key = "mandatory" -> [result EXCEPT !.mandatory_keys = @ \cup param.value]
      [] param.key = "alpn"      -> [result EXCEPT !.alpn = @ \cup param.value]
      [] param.key = "echconfig" -> [result EXCEPT !.ech_config = param.value]
      [] param.key = "ipv4hint"  -> [result EXCEPT !.ipv4_hints = @ \cup param.value]
      [] param.key = "ipv6hint"  -> [result EXCEPT !.ipv6_hints = @ \cup param.value]
      [] param.key = "port" /\ param.value # {} -> [result EXCEPT !.port = param.value]
      [] OTHER -> result

\* The loop of lines 135-139: the first parameter that cannot be read ends it.
ReadParams(result, params) ==
    FoldLeft(LAMBDA loop, param :
                 IF ~loop.open \/ param = Truncated
                   THEN [loop EXCEPT !.open = FALSE]
                   ELSE [loop EXCEPT !.result = ParseOneParam(@, param)],
             [open |-> TRUE, result |-> result], params).result

CheckMandatoryParams(result) == result.mandatory_keys \subseteq SupportedKeys

Parse(raw) ==
    IF raw.priority # "service" \/ raw.target = "short"
      THEN NoResult
      ELSE LET result == ReadParams([NoResult EXCEPT !.alternative_service =
                                         raw.target = "other"], raw.params)
           IN  [result EXCEPT !.valid = CheckMandatoryParams(result)]
=============================================================================
