-------------------------------- MODULE Ape --------------------------------
(***************************************************************************)
(* ape.c: looking for an APE tag in a file, and going over its items.  A   *)
(* file is a sequence of symbols; of a header there is the preamble, and   *)
(* the flag and size that decide what ape_read_tags does next are chosen   *)
(* when it is read.  Of an item there are its lengths.                     *)
(* A definition under the comment "Fault" is the one after it with a       *)
(* plausible bug, and no part of the model.                                *)
(***************************************************************************)
EXTENDS Integers, Sequences

CONSTANTS
    Preamble,    \* preamble
    HEADER_SIZE,
    ID3_SIZE,    \* the 128 bytes of another tag behind the header
    Files,       \* the contents that files have
    MaxRead,     \* the most that read() gives at once
    MaxSize,     \* the largest size of a tag, a bound
    Word         \* the number of values of a length, 2^32

ASSUME ApeAssumption ==
    /\ Len(Preamble) \in Nat \ {0} /\ DOMAIN Preamble = 1 .. Len(Preamble)
    /\ \A f \in Files : Len(f) \in Nat
    /\ HEADER_SIZE \in Nat /\ Len(Preamble) <= HEADER_SIZE /\ ID3_SIZE \in Nat
    /\ MaxRead \in Nat \ {0} /\ MaxSize \in Nat /\ Word \in Nat \ {0}

VARIABLES
    reading,  \* where ape_read_tags is
    file,     \* the contents of the file
    offset,   \* where the file is read
    old_pos,  \* where it was read before
    slow,     \* the parameter slow
    match,    \* how much of the preamble find_ape_tag_slow has just seen
    i,        \* where it looks
    got,      \* up to where it has read
    parsing,  \* where ape_parse_one is
    size,     \* the size of what it goes over
    item,     \* pos, where the next item is
    last      \* history: the end of what it has read

search_vars == <<match, i, got>>
read_vars == <<reading, file, offset, old_pos, slow, search_vars>>
parse_vars == <<parsing, size, item, last>>
ape_vars == <<read_vars, parse_vars>>

ApeInit ==
    /\ reading = "idle" /\ file = <<>> /\ offset = 0 /\ old_pos = 0
    /\ slow = FALSE /\ match = 0 /\ i = 0 /\ got = 0
    /\ parsing = "idle" /\ size = 0 /\ item = 0 /\ last = 0

-----------------------------------------------------------------------------
(* ape_read_tags.                                                          *)

(* The preamble is in the file behind the first p symbols.                 *)
PreambleAt(p) ==
    /\ 0 <= p /\ p + Len(Preamble) <= Len(file)
    /\ \A k \in DOMAIN Preamble : file[p + k] = Preamble[k]

(* read_header succeeds there.                                             *)
HeaderAt(p) == PreambleAt(p) /\ p + HEADER_SIZE <= Len(file)

ReadTags ==
    /\ reading \in {"idle", "returned"} /\ reading' = "footer"
    /\ file' \in Files /\ slow' \in BOOLEAN
    /\ offset' \in 0 .. Len(file') /\ old_pos' = offset'
    /\ UNCHANGED <<search_vars, parse_vars>>

(* find_ape_tag: at the end of the file, otherwise where another tag would *)
(* follow it there is only a seek, whose failure ends the search.          *)
FindFooter ==
    /\ reading = "footer"
    /\ LET end == Len(file) - HEADER_SIZE
       IN  \/ /\ HeaderAt(end)
              /\ reading' = "header" /\ offset' = Len(file)
              /\ UNCHANGED search_vars
           \/ /\ ~HeaderAt(end) /\ slow /\ end >= ID3_SIZE
              /\ reading' = "search" /\ offset' = 0
              /\ match' = 0 /\ i' = 0 /\ got' = 0
           \/ /\ ~HeaderAt(end) /\ ~(slow /\ end >= ID3_SIZE)
              /\ reading' = "fail"
              /\ UNCHANGED <<offset, search_vars>>
    /\ UNCHANGED <<file, old_pos, slow, parse_vars>>

(* Fault: each buffer is searched on its own.                              *)
ReadBufferAnew ==
    /\ reading = "search" /\ i = got
    /\ \/ \E n \in 1 .. MaxRead :
             /\ offset + n <= Len(file)
             /\ got' = offset + n /\ offset' = got' /\ match' = 0
             /\ UNCHANGED reading
       \/ /\ offset = Len(file) /\ reading' = "missed"
          /\ UNCHANGED <<got, offset, match>>
    /\ UNCHANGED <<file, old_pos, slow, i, parse_vars>>

(* read(): some symbols, the end, an interruption, or an error.            *)
ReadBuffer ==
    /\ reading = "search" /\ i = got
    /\ \/ \E n \in 1 .. MaxRead :
             /\ offset + n <= Len(file)
             /\ got' = offset + n /\ offset' = got' /\ UNCHANGED reading
       \/ /\ offset = Len(file) /\ reading' = "missed"
          /\ UNCHANGED <<got, offset>>
       \/ reading' = "fail" /\ UNCHANGED <<got, offset>>
    /\ UNCHANGED <<file, old_pos, slow, match, i, parse_vars>>

(* One symbol of the buffer: a mismatch starts again behind it.            *)
MatchSymbol ==
    /\ reading = "search" /\ i < got
    /\ i' = i + 1
    /\ match' = IF file[i + 1] = Preamble[match + 1] THEN match + 1 ELSE 0
    /\ reading' = IF match' = Len(Preamble) THEN "found" ELSE "search"
    /\ UNCHANGED <<file, offset, old_pos, slow, got, parse_vars>>

Start == i - Len(Preamble)

(* The seek to what was found, and read_header.                            *)
ReadFound ==
    /\ reading \in {"found", "missed"}
    /\ IF reading = "found" /\ HeaderAt(Start)
       THEN reading' = "header" /\ offset' = Start + HEADER_SIZE
       ELSE reading' = "fail" /\ UNCHANGED offset
    /\ UNCHANGED <<file, old_pos, slow, search_vars, parse_vars>>

(* A footer's tag is in front of it; the seek may lead before the file.    *)
SeekTag ==
    /\ reading = "header"
    /\ \E n \in 0 .. MaxSize, footer \in BOOLEAN :
          /\ reading' = IF footer /\ n > offset THEN "fail" ELSE "rewind"
          /\ offset' = IF footer /\ n <= offset THEN offset - n ELSE offset
    /\ UNCHANGED <<file, old_pos, slow, search_vars, parse_vars>>

(* The caller's place in the file is restored on success and on failure.   *)
Return ==
    /\ reading \in {"fail", "rewind"} /\ reading' = "returned"
    /\ offset' = old_pos
    /\ UNCHANGED <<file, old_pos, slow, search_vars, parse_vars>>

-----------------------------------------------------------------------------
(* ape_parse_one.                                                          *)

ParseOne ==
    /\ parsing \in {"idle", "returned"} /\ parsing' = "items"
    /\ size' \in 0 .. MaxSize
    /\ item' = 0 /\ last' = 0
    /\ UNCHANGED read_vars

(* Fault: computed with the width of the length.                           *)
MaxKeyLenWord(pos, val_len) == (size - pos - val_len - 1) % Word

(* max_key_len, with more bits than the length.                            *)
MaxKeyLen(pos, val_len) == size - pos - val_len - 1

Later(a, b) == IF a > b THEN a ELSE b

(* One round of the loop: two numbers, the key, and the value unless it is *)
(* skipped.  Behind a value the next item is taken to be as far as the key *)
(* is long.                                                                *)
ParseItem ==
    /\ parsing = "items" /\ size - item > 8
    /\ \E val_len \in 0 .. Word - 1 :
          LET pos == item + 8
              max_key_len == MaxKeyLen(pos, val_len)
          IN  \/ /\ max_key_len < 0
                 /\ parsing' = "returned" /\ last' = Later(last, pos)
                 /\ UNCHANGED item
              \/ /\ max_key_len >= 0
                 /\ parsing' = "returned"
                 /\ last' = Later(last, pos + max_key_len + 1)
                 /\ UNCHANGED item
              \/ \E key_len \in 0 .. max_key_len :
                    LET val == pos + key_len + 1
                    IN  \/ item' = val + val_len /\ last' = Later(last, val)
                        \/ /\ item' = val + key_len + 1
                           /\ last' = Later(last, val + val_len)
                 /\ UNCHANGED parsing
    /\ UNCHANGED <<size, read_vars>>

ParseEnd ==
    /\ parsing = "items" /\ size - item <= 8
    /\ parsing' = "returned"
    /\ UNCHANGED <<size, item, last, read_vars>>

ApeNext ==
    \/ ReadTags \/ FindFooter \/ ReadBuffer \/ MatchSymbol \/ ReadFound
    \/ SeekTag \/ Return
    \/ ParseOne \/ ParseItem \/ ParseEnd

ApeSpec == ApeInit /\ [][ApeNext]_ape_vars

-----------------------------------------------------------------------------
(* The symbols in front of p are the beginning of the preamble.            *)
Hidden(p) ==
    \E n \in 1 .. Len(Preamble) - 1 :
        n <= p /\ \A k \in 1 .. n : file[p - n + k] = Preamble[k]

(* However the reads cut the file, what find_ape_tag_slow finds is a       *)
(* preamble, and it passes over only those that stand right behind a part  *)
(* of a preamble, which a search that starts again behind a mismatch may   *)
(* take for the beginning of one.                                          *)
SearchExact ==
    /\ reading = "found" => PreambleAt(Start)
    /\ reading \in {"search", "found", "missed"} =>
          \A p \in 0 .. i - Len(Preamble) :
              PreambleAt(p) /\ ~(reading = "found" /\ p = Start) => Hidden(p)

(* ape_parse_one reads nothing behind the tag, whatever the lengths in it. *)
ItemsInBounds == last <= size
=============================================================================
