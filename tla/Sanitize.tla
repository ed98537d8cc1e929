------------------------------ MODULE Sanitize ------------------------------
(***************************************************************************)
(* SanitizeAlbum of library/sanitize.go (D-10), on sequences of classes of *)
(* characters: the rules treat all characters of one class alike.  A       *)
(* device name (con, lpt1) is one symbol, for the letters it is made of    *)
(* only ever stay together or are cut from the end.                        *)
(*                                                                         *)
(* An album is sanitised when a client names it, and again when the name   *)
(* it was given comes back.                                                *)
(***************************************************************************)
EXTENDS Integers, Sequences, SequencesExt

CONSTANTS
  MaxAlbumGraphemes,  \* a positive number
  MaxLength           \* bound of the names tried

VARIABLES
  name,
  times  \* how often it was sanitised

Forbidden == {"slash", "control"}     \* forbiddenPathRunes and C0
Spaces == {"space", "wide"}           \* unicode.IsSpace
Trimmed == {"dot", "space"}
\* A composable letter and its mark, as two characters and as one.
Letters == {"letter", "u", "mark", "umlaut"}
Runes == {"device", "underscore"} \cup Letters \cup Forbidden \cup Spaces \cup Trimmed

Fallback == <<"letter", "letter">>   \* AlbumFallback

-----------------------------------------------------------------------------

\* norm.NFC
Composed(s) ==
  FoldLeft(LAMBDA out, r :
             IF r = "mark" /\ out # <<>> /\ Last(out) = "u"
             THEN Append(Front(out), "umlaut") ELSE Append(out, r),
           <<>>, s)

StripForbidden(s) == SelectSeq(s, LAMBDA r : r \notin Forbidden)

\* Each run of white space is one space; none is left in front or behind.
CollapseWhitespace(s) ==
  LET visible == {i \in DOMAIN s : s[i] \notin Spaces}
      follows(i) == i > 1 /\ i - 1 \notin visible /\ \E j \in visible : j < i
  IN FlattenSeq([i \in DOMAIN s |->
       IF i \notin visible THEN <<>> ELSE IF follows(i) THEN <<"space", s[i]>> ELSE <<s[i]>>])

TrimDotsAndSpaces(s) ==
  LET solid == {i \in DOMAIN s : s[i] \notin Trimmed}
  IN FlattenSeq([i \in DOMAIN s |->
       IF (\E j \in solid : j <= i) /\ (\E j \in solid : j >= i) THEN <<s[i]>> ELSE <<>>])

SuffixReserved(s) == IF s = <<"device">> THEN Append(s, "underscore") ELSE s

\* A mark belongs to the grapheme cluster before it.
StartsCluster(s, i) == s[i] # "mark" \/ i = 1

TruncateGraphemes(s, max) ==
  FlattenSeq([i \in DOMAIN s |->
    IF Len(SelectSeq([j \in 1..i |-> StartsCluster(s, j)], LAMBDA starts : starts)) <= max
    THEN <<s[i]>> ELSE <<>>])

SanitizeAlbum(raw) ==
  LET reserved == SuffixReserved(TrimDotsAndSpaces(CollapseWhitespace(StripForbidden(Composed(raw)))))
      s == TrimDotsAndSpaces(TruncateGraphemes(reserved, MaxAlbumGraphemes))
  IN IF s = <<>> THEN Fallback ELSE s

-----------------------------------------------------------------------------

Init ==
  /\ name \in SeqOf(Runes, MaxLength)
  /\ times = 0

Sanitise ==
  /\ times < 2
  /\ name' = SanitizeAlbum(name)
  /\ times' = times + 1

Spec == Init /\ [][Sanitise]_<<name, times>>

\* SanitizeAlbum "is idempotent: sanitising an already-sanitised name is a no-op"
\* (sanitize.go:57-59).
Idempotent == times > 0 => SanitizeAlbum(name) = name
=============================================================================
