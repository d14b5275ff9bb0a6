-------------------------- MODULE MCResolveContext --------------------------
(***************************************************************************)
(* Answers in which the first record is an alias, has an unsupported       *)
(* mandatory parameter before or after its data, or is cut short; two      *)
(* hosts under two keys.                                                   *)
(***************************************************************************)
EXTENDS ResolveContext, TLC

CONSTANTS x, y, n1, n2

MCHost == {x, y}
MCNak == {n1, n2}

Symmetry == Permutations(MCHost) \cup Permutations(MCNak)

P(key, value) == [key |-> key, value |-> value]

Service(params) == [priority |-> "service", target |-> "self", params |-> params]

Full == Service(<<P("alpn", {"h3", "h2"}), P("echconfig", {"e1"}), P("ipv4hint", {"a1"})>>)
OtherEch == Service(<<P("mandatory", {"echconfig"}), P("echconfig", {"e2"}), P("port", {"p1"})>>)
Plain == Service(<<P("alpn", {"h2"}), P("port", {}), P("ipv6hint", {"a2"})>>)
Unsupported == Service(<<P("echconfig", {"e3"}), P("alpn", {"h3"}), P("mandatory", {"unknown"})>>)
Cut == Service(<<P("echconfig", {"e3"}), Truncated, P("alpn", {"h3"})>>)
Alias == [priority |-> "alias", target |-> "other", params |-> <<P("echconfig", {"e3"})>>]

MCAnswer == { <<Full>>, <<Alias, OtherEch>>, <<Unsupported, Plain, Full>>, <<Unsupported>> }

MCAtom == {"h3", "h2", "e1", "e2", "e3", "a1", "a2", "p1", "unknown", "echconfig"}
=============================================================================
