------------------------------ MODULE ECHWire -------------------------------
(***************************************************************************)
(* The loops of ECHConfigList over bytes: ECHManager::ConfigureECH         *)
(* (ssl_client_socket.cc:121-164) and, with every version accepted,        *)
(* ECHManager::ECHRetryCallback (:229-248).                                *)
(*                                                                         *)
(* A source of configurations is written as bytes, bare or with the outer  *)
(* length of the format, and cut off anywhere; the loop reads what is      *)
(* left.  BoringSSL's CBS and SSL_ECH_KEYS_add are external: a read that   *)
(* needs more bytes than there are fails, and Key is what the latter       *)
(* accepts.                                                                *)
(***************************************************************************)
EXTENDS ECHConfigList

CONSTANT Source     \* lists of configurations: their versions and contents

Octet == 0..255
Word == 0..65535        \* uint16

WireConfig == [version : Word, contents : Seq(Octet)]

ASSUME SourceAssumption ==
    /\ Source \subseteq Seq(WireConfig)
    /\ \A s \in Source : \A i \in DOMAIN s : Len(s[i].contents) \in Word

VARIABLES
    source,     \* what was written
    framing,    \* "bare", or "outer" with the length in front
    cut,        \* how many of its bytes arrive
    versions,   \* the versions the loop accepts
    cbs,        \* the bytes not read yet
    keys,       \* what SSL_ECH_KEYS_add has accepted
    loop        \* "reading", "broken" by a break, or at its "end"

wireVars == <<source, framing, cut, versions, cbs, keys, loop>>

-----------------------------------------------------------------------------
\* Network byte order.
U16(n) == <<n \div 256, n % 256>>
ReadU16(bytes, at) == bytes[at] * 256 + bytes[at + 1]

ConfigBytes(c) == U16(c.version) \o U16(Len(c.contents)) \o c.contents

ConfigsBytes(s) == FlattenSeq([i \in DOMAIN s |-> ConfigBytes(s[i])])

ListBytes(s, frame) ==
    IF frame = "outer" THEN U16(Len(ConfigsBytes(s))) \o ConfigsBytes(s) ELSE ConfigsBytes(s)

WireInit ==
    /\ source \in Source
    /\ framing \in {"bare", "outer"}
    /\ cut \in 0..Len(ListBytes(source, framing))
    /\ versions \in {SupportedVersion, AnyVersion}
    /\ cbs = SubSeq(ListBytes(source, framing), 1, cut)
    /\ keys = {}
    /\ loop = "reading"

Version(n) == CASE n = 65037 -> Draft13 [] n = 65036 -> Draft12 [] OTHER -> "other"

Added(version, contents) ==
    IF Version(version) \in versions /\ contents \in Key THEN keys \cup {contents} ELSE keys

\* The bytes a turn needs: version, length, and as many as the length says.
Whole(bytes) == Len(bytes) >= 4 /\ Len(bytes) >= 4 + ReadU16(bytes, 3)

\* Faulty variant of ReadConfig: the length is not held against what is there.
ReadConfigUnbounded ==
    /\ loop = "reading"
    /\ Len(cbs) >= 4
    /\ keys' = Added(ReadU16(cbs, 1), SubSeq(cbs, 5, Len(cbs)))
    /\ cbs' = SubSeq(cbs, 5 + ReadU16(cbs, 3), Len(cbs))
    /\ UNCHANGED <<source, framing, cut, versions, loop>>

\* A turn of the loop that reads a configuration, and adds it or skips it.
ReadConfig ==
    /\ loop = "reading"
    /\ Whole(cbs)
    /\ LET length == ReadU16(cbs, 3) IN
       /\ keys' = Added(ReadU16(cbs, 1), SubSeq(cbs, 5, 4 + length))
       /\ cbs' = SubSeq(cbs, 5 + length, Len(cbs))
    /\ UNCHANGED <<source, framing, cut, versions, loop>>

\* One that cannot: break.
BreakOff ==
    /\ loop = "reading"
    /\ cbs # <<>> /\ ~Whole(cbs)
    /\ loop' = "broken"
    /\ UNCHANGED <<source, framing, cut, versions, cbs, keys>>

EndOfList ==
    /\ loop = "reading"
    /\ cbs = <<>>
    /\ loop' = "end"
    /\ UNCHANGED <<source, framing, cut, versions, cbs, keys>>

WireNext == ReadConfig \/ BreakOff \/ EndOfList

WireSpec == WireInit /\ [][WireNext]_wireVars

-----------------------------------------------------------------------------
\* Where the first i configurations of a bare list end.
EndOf(i) == Len(ConfigsBytes(SubSeq(source, 1, i)))

\* A configuration as an item of ECHConfigList.
Item(c) == [version |-> Version(c.version),
            contents |-> IF c.contents \in Key THEN c.contents ELSE Garbage]

\* Those that arrive whole, and Broken for what arrives of the next.
Items ==
    LET whole == {i \in DOMAIN source : EndOf(i) <= cut}
    IN  [i \in whole |-> Item(source[i])]
          \o IF cut \in {EndOf(i) : i \in whole \cup {0}} THEN <<>> ELSE <<Broken>>

(***************************************************************************)
(* Reading the bytes is reading the items: whatever is cut off, the loop   *)
(* takes the configurations that arrive whole, all of them and nothing     *)
(* else, as ECHConfigList says it does.                                    *)
(***************************************************************************)
BytesReadAsItems ==
    loop # "reading" /\ framing = "bare" => keys = ReadList(Items, versions)

(***************************************************************************)
(* A list in the documented format, an outer length before the             *)
(* configurations (the comment at ssl_client_socket.cc:114-117), gives the *)
(* configurations it holds.                                                *)
(***************************************************************************)
DocumentedFormatIsRead ==
    loop # "reading" /\ framing = "outer" /\ cut = Len(ListBytes(source, framing)) =>
        keys = ReadList([i \in DOMAIN source |-> Item(source[i])], versions)
=============================================================================
