------------------------------ MODULE PathRouting ------------------------------
(***************************************************************************)
(* Publication paths (internal/config/publication_path.go) and how `pdg    *)
(* scan` routes with them (internal/scan/stateful.go): from a file of the  *)
(* output directory to a website path, and from the website path to the    *)
(* publish mode of the publication path that covers it.                    *)
(*                                                                         *)
(* A path is the sequence of its segments; the empty sequence is "/".      *)
(***************************************************************************)
EXTENDS Sequences, SequencesExt, Naturals

CONSTANT Index  \* the stem of index.html

\* A configured publication path is a record of a path and of what is published
\* below it, "unset" when pdg.yaml leaves it out.  What is no path is no value here:
\* an empty one, or one that is only dots.
PublishModes == {"all", "explicit"}
IsPathList(paths) ==
  /\ paths \in Seq(ToSet(paths))
  /\ \A item \in ToSet(paths) : item.path \in Seq(ToSet(item.path))

Repeats(a, b) == a.path = b.path
Contradicts(a, b) == Repeats(a, b) /\ a.publish # b.publish

\* NormalizePublicationPaths: what it refuses, and what it keeps.
Refused(paths) ==
  \/ \E i \in DOMAIN paths : paths[i].publish \notin PublishModes
  \/ \E i, j \in DOMAIN paths : Contradicts(paths[i], paths[j])
Normalized(paths) ==
  LET kept[i \in 0..Len(paths)] ==
        IF i = 0 THEN << >>
        ELSE IF Contains(kept[i - 1], paths[i]) THEN kept[i - 1]
        ELSE Append(kept[i - 1], paths[i])
  IN kept[Len(paths)]

-----------------------------------------------------------------------------
\* websitePath: index.html stands for its directory, any other file loses its
\* extension, .html or .htm.
WebsitePath(f) == IF f.stem = Index THEN f.dir ELSE Append(f.dir, f.stem)

\* "/" covers every document, any other path itself and what lies below it.
Covers(item, d) == IsPrefix(item.path, d)
Depth(item) == Len(item.path)

\* No publication path: the depth of "" is that of "/".
Nowhere == [path |-> << >>, publish |-> "off"]

\* Mutant: the last path that covers the document rules.
LastRules(d, paths) ==
  LET best[i \in 0..Len(paths)] ==
        IF i = 0 THEN Nowhere
        ELSE IF Covers(paths[i], d) THEN paths[i] ELSE best[i - 1]
  IN best[Len(paths)]

\* matchingPath and matchingPublicationMode: the deepest, strictly, of those that
\* cover the document.
Ruling(d, paths) ==
  LET best[i \in 0..Len(paths)] ==
        IF i = 0 THEN Nowhere
        ELSE IF Covers(paths[i], d) /\ Depth(paths[i]) > Depth(best[i - 1])
          THEN paths[i] ELSE best[i - 1]
  IN best[Len(paths)]

PublicationMode(d, paths) == Ruling(d, paths).publish
=============================================================================
