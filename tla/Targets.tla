------------------------------- MODULE Targets -------------------------------
(***************************************************************************)
(* Target strings: what admin/map accepts (canonicalizeTarget,             *)
(* src/backend/mapping.go) and how a read takes them apart                 *)
(* (splitTargetPathField and targetMount, dereference.go).                 *)
(*                                                                         *)
(* A target is a sequence of lexemes: the characters "/", "#", "%", "?"    *)
(* and "." that the code looks at, and words, which stand for the text     *)
(* between them.                                                           *)
(***************************************************************************)
EXTENDS Integers, SequencesExt

\* Where c first occurs in t, one past its end if nowhere: strings.IndexByte.
Index(t, c) == IF Contains(t, c) THEN SelectInSeq(t, LAMBDA x : x = c) ELSE Len(t) + 1

\* splitTargetPathField.
PathOf(target) == SubSeq(target, 1, Index(target, "#") - 1)
FieldOf(target) == SubSeq(target, Index(target, "#") + 1, Len(target))

\* targetMount.
TargetMount(path) == SubSeq(path, 1, Index(path, "/") - 1)

\* The segments strings.Split cuts path into, as far as what they are matters.
Segments(path) ==
    LET Cuts == {0, Len(path) + 1} \cup {i \in DOMAIN path : path[i] = "/"}
        Neighbours(c) == c[1] < c[2] /\ \A k \in Cuts : ~(c[1] < k /\ k < c[2])
    IN  {SubSeq(path, c[1] + 1, c[2] - 1) : c \in {c \in Cuts \X Cuts : Neighbours(c)}}

Dots == {<<".">>, <<".", ".">>}

\* canonicalizeTarget returns no error.
Canonical(target, ownMount) ==
    LET path == PathOf(target)
    IN  /\ ~Contains(target, "%") /\ ~Contains(target, "?")
        /\ Contains(target, "#") =>
               FieldOf(target) # <<>> /\ ~Contains(FieldOf(target), "#")
        /\ Contains(path, "/")
        /\ Segments(path) \cap ({<<>>} \cup Dots) = {}
        /\ ownMount # <<>> => TargetMount(path) # ownMount

-----------------------------------------------------------------------------
(* The grammar the documentation gives (README, mapping fields), read left   *)
(* to right: <mount>/<path>[#field].                                         *)

\* Where a reader of the grammar is: in which part, and what of the present
\* segment it has seen, nothing, one dot, two dots, or something else.
Read(at, c) ==
    CASE at = "reject" \/ c \in {"%", "?"} -> "reject"
      [] at \in {"#", "field"} -> IF c = "#" THEN "reject" ELSE "field"
      [] c = "#" -> IF at = "name" THEN "#" ELSE "reject"
      [] c = "/" -> IF at \in {"mount", "name"} THEN "" ELSE "reject"
      [] at = "start" -> IF c = "." THEN "mount." ELSE "mount"
      [] at \in {"mount", "mount.", "mount.."} ->
             IF at = "mount." /\ c = "." THEN "mount.." ELSE "mount"
      [] at = "" -> IF c = "." THEN "." ELSE "name"
      [] OTHER -> IF at = "." /\ c = "." THEN ".." ELSE "name"

\* Whether the documentation calls target canonical.
Documented(target) ==
    LET at[i \in 0..Len(target)] == IF i = 0 THEN "start" ELSE Read(at[i - 1], target[i])
    IN  at[Len(target)] \in {"name", "field"}
=============================================================================
