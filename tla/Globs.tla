-------------------------------- MODULE Globs --------------------------------
(***************************************************************************)
(* The wildcard matchers of sfind and locate.  A text is a sequence of     *)
(* letters with "/" for either separator.  A pattern is a sequence of      *)
(* stars, single wildcards and sets of letters: a plain letter is a set of *)
(* one, a class in brackets one of several.                                *)
(***************************************************************************)
EXTENDS Integers, Sequences

Star == [wild |-> "star", letters |-> {}]
One == [wild |-> "one", letters |-> {}]
In(letters) == [wild |-> "in", letters |-> letters]
Exact(text) == [i \in DOMAIN text |-> In({text[i]})]

(* glob_match: a wildcard stays within a name, unless separators are       *)
(* allowed.  from[n] is where the last n parts match all that is left.     *)
Takes(part, letter, sep) ==
  IF part.wild = "in" THEN letter \in part.letters ELSE sep \/ letter # "/"
GlobMatch(pat, text, sep) ==
  LET from[n \in 0 .. Len(pat)] ==
        LET part == pat[Len(pat) - n + 1]
        IN IF n = 0 THEN {Len(text) + 1}
           ELSE IF part.wild = "star"
           THEN {j \in 1 .. Len(text) + 1 :
                   \E k \in from[n - 1] : j <= k /\ \A l \in j .. k - 1 : Takes(part, text[l], sep)}
           ELSE {j \in 1 .. Len(text) : Takes(part, text[j], sep) /\ j + 1 \in from[n - 1]}
  IN 1 \in from[Len(pat)]

(* glob_bytes and locate_glob: separators are letters like others.  They   *)
(* know no classes.                                                        *)
GlobBytes(pat, text) == GlobMatch(pat, text, TRUE)

(* contains: the pattern anywhere.                                         *)
HasPart(text, part) ==
  \E i \in 0 .. Len(text) - Len(part) : SubSeq(text, i + 1, i + Len(part)) = part

(* Reference: the text can be cut into one piece for each part of the      *)
(* pattern.                                                                *)
Fits(piece, part, sep) ==
  /\ part.wild # "star" => Len(piece) = 1
  /\ \A i \in DOMAIN piece : Takes(part, piece[i], sep)
IsGlobOf(pat, text, sep) ==
  \E cut \in [0 .. Len(pat) -> 0 .. Len(text)] :
    /\ cut[0] = 0 /\ cut[Len(pat)] = Len(text)
    /\ \A i \in DOMAIN pat :
         cut[i - 1] <= cut[i] /\ Fits(SubSeq(text, cut[i - 1] + 1, cut[i]), pat[i], sep)
=============================================================================
