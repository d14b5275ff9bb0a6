--------------------------- MODULE ECHConfigList ----------------------------
(***************************************************************************)
(* The loops that read a list of ECH configurations: ECHManager::          *)
(* ConfigureECH (ssl_client_socket.cc:137-164), ECHManager::               *)
(* ECHRetryCallback (:233-248) and ConfigureECHForQuicSession              *)
(* (quic_ech_integration.cc:55-72).                                        *)
(*                                                                         *)
(* A list is what the loop finds when it reads uint16 version, uint16      *)
(* length, contents: a sequence of items.  The item Broken stands for      *)
(* bytes at which one of the two reads fails.  A list that begins with the *)
(* outer length of RFC 9460 reads as Broken at once: the length is taken   *)
(* for a version and the first version, 0xFE0D, for a length.              *)
(***************************************************************************)
EXTENDS Integers, SequencesExt

CONSTANTS
    Key,            \* contents SSL_ECH_KEYS_add accepts
    Garbage         \* contents it rejects

ASSUME GarbageAssumption == Garbage \notin Key

Draft13 == "FE0D"
Draft12 == "FE0C"
AnyVersion == {Draft13, Draft12, "other"}

\* Line 148 (and quic_ech_integration.cc:64).
SupportedVersion == {Draft13, Draft12}

Broken == [version |-> "broken", contents |-> Garbage]

ConfigItem == [version : AnyVersion, contents : Key \cup {Garbage}]

ListItem == ConfigItem \cup {Broken}

-----------------------------------------------------------------------------
\* Faulty variant of ReadItem: SSL_ECH_KEYS_add's refusal goes unnoticed.
ReadItemAddsAll(loop, item, versions) ==
    IF ~loop.open \/ item = Broken
      THEN [loop EXCEPT !.open = FALSE]
      ELSE IF item.version \in versions
             THEN [loop EXCEPT !.keys = @ \cup {item.contents}]
             ELSE loop

(***************************************************************************)
(* One turn of the loop.  open is FALSE once a break has left the loop;    *)
(* keys is what SSL_ECH_KEYS_add has accepted so far.                      *)
(***************************************************************************)
ReadItem(loop, item, versions) ==
    IF ~loop.open \/ item = Broken
      THEN [loop EXCEPT !.open = FALSE]
      ELSE IF item.version \in versions /\ item.contents # Garbage
             THEN [loop EXCEPT !.keys = @ \cup {item.contents}]
             ELSE loop

ReadList(list, versions) ==
    FoldLeft(LAMBDA loop, item : ReadItem(loop, item, versions),
             [open |-> TRUE, keys |-> {}], list).keys

\* ConfigureECH and QUIC read supported versions only; the retry callback
\* hands the contents of every item to SSL_ECH_KEYS_add.
ConfiguredKeys(list) == ReadList(list, SupportedVersion)
RetryKeys(list) == ReadList(list, AnyVersion)
=============================================================================
