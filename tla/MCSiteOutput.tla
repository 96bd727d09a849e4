----------------------------- MODULE MCSiteOutput ------------------------------
(* Instances of SiteOutput for TLC: a blog of two posts.                      *)
EXTENDS SiteOutput, TLC

CONSTANTS blog, a, b

FileAt(stem, ext) == [dir |-> <<blog>>, stem |-> stem, ext |-> ext]

\* The second is another name for the path of the first, and no inject writes it.
ABFiles == {FileAt(a, "html"), FileAt(a, "htm"), FileAt(b, "html")}

ADoc == <<blog, a>>
BDoc == <<blog, b>>
ABDocs == {ADoc, BDoc}

\* The second version of b declares a as its canonical URL.
ABCanonical == [d \in ABDocs |-> [v \in {1, 2} |-> IF v = 2 THEN ADoc ELSE d]]

P(v, decl, links) == [ver |-> v, decl |-> decl, links |-> links]

Pages(html, htm, second) ==
  [f \in ABFiles |-> IF f = FileAt(b, "html") THEN second
                    ELSE IF f.ext = "html" THEN html ELSE htm]

\* Both posts, of which the first was copied from another site; the first renamed,
\* and the second come to say it is no original; the first under both names.
ABSites == {Pages(P(1, "default", {0}), NoFile, P(1, "default", {})),
            Pages(NoFile, P(1, "default", {}), P(2, "default", {})),
            Pages(P(1, "default", {}), P(1, "default", {}), NoFile)}

\* A directory of drafts that has the one post only.
Drafts ==
  [f \in ABFiles |-> IF f = FileAt(a, "html") THEN P(1, "default", {}) ELSE NoFile]

Under(path, publish) == [path |-> path, publish |-> publish]

\* The blog, said twice; the blog, but its post b when it says so, in either order; a
\* list that LoadConfig refuses.
Blog == <<Under(<<blog>>, "all"), Under(<<blog>>, "all")>>
BExplicit == <<Under(BDoc, "explicit"), Under(<<blog>>, "all")>>
BExplicitLast == <<Under(<<blog>>, "all"), Under(BDoc, "explicit")>>
Contradiction == <<Under(<<blog>>, "explicit"), Under(<<blog>>, "all")>>

ABRoutings == {Blog, BExplicit, BExplicitLast, Contradiction}
ABConfigs == {[did |-> did, paths |-> Blog] : did \in {CHOOSE did \in Dids : TRUE}}

\* The default of pdg add.
RootRouting == {<<Under(<< >>, "all")>>}
RootConfigs == {[did |-> did, paths |-> paths] : did \in Dids, paths \in RootRouting}
=============================================================================
