--------------------------- MODULE ProjectStateProofs ---------------------------
(* Lemmas about the project state and the scan, which the proofs of the       *)
(* modules that use them share.                                               *)
EXTENDS ProjectState, TLAPS

\* Whatever a page has become, scanning it keeps what the state knows of the
\* remote: the record URI, the published fingerprint and the post.
LEMMA ScanDocumentKeeps ==
  ASSUME NEW prior \in DocumentState, NEW page \in Page, NEW mode
  PROVE  LET doc == ScanDocument(prior, page, mode)  IN
           /\ doc \in DocumentState
           /\ doc.uri = prior.uri
           /\ doc.pubfp = prior.pubfp
           /\ doc.post = prior.post
<1>1. Selects(page, mode) \in BOOLEAN
  BY DEF Selects
<1>2. ScanStatus(prior, page, mode) \in Status
  BY <1>1 DEF ScanStatus, Status
<1>3. page.ver \in Versions \cup {0}
  BY DEF Page, NoPage
<1>4. CASE page = NoPage
  BY <1>4 DEF ScanDocument, Missing, DocumentState, Status
<1>5. CASE page # NoPage /\ mode = "off"
  BY <1>5 DEF ScanDocument, OutOfScope, DocumentState, Status
<1>6. CASE page # NoPage /\ mode # "off"
  BY <1>1, <1>2, <1>3, <1>6 DEF ScanDocument, Present, DocumentState
<1> QED
  BY <1>4, <1>5, <1>6

\* The same of the whole project.
LEMMA ScanKeeps ==
  ASSUME NEW project \in Project, NEW s \in Site, NEW modes
  PROVE  LET after == ScanStateful(project, s, modes)  IN
           /\ after \in Project
           /\ \A d \in Docs : /\ after[d].uri = project[d].uri
                              /\ after[d].post = project[d].post
<1>1. ASSUME NEW d \in Docs
      PROVE  LET doc == ScanDocument(project[d], s[d], modes[d])  IN
               /\ doc \in DocumentState
               /\ doc.uri = project[d].uri
               /\ doc.post = project[d].post
  BY ScanDocumentKeeps DEF Project, Site
<1> QED
  BY <1>1 DEF ScanStateful, Project

\* A scan selects only documents that have a page under a publication path.
LEMMA ScanSelects ==
  ASSUME NEW project \in Project, NEW s \in Site, NEW modes, NEW d \in Docs,
         ScanStateful(project, s, modes)[d].selected
  PROVE  project[d].selected \/ (s[d] # NoPage /\ modes[d] # "off")
<1>1. ScanDocument(project[d], s[d], modes[d]).selected
  BY DEF ScanStateful
<1>2. project[d] \in DocumentState
  BY DEF Project
<1>3. ASSUME s[d] = NoPage PROVE ScanDocument(project[d], s[d], modes[d]).selected = project[d].selected
  BY <1>2, <1>3 DEF ScanDocument, Missing, DocumentState
<1>4. ASSUME s[d] # NoPage, modes[d] = "off"
      PROVE  ScanDocument(project[d], s[d], modes[d]).selected = project[d].selected
  BY <1>2, <1>4 DEF ScanDocument, OutOfScope, DocumentState
<1> QED
  BY <1>1, <1>3, <1>4

\* The state of a project that was never scanned.
LEMMA NewType == New \in Project
<1>1. NoDocument \in DocumentState
  BY DEF NoDocument, DocumentState, Status
<1> QED
  BY <1>1 DEF New, Project

\* Noting a record or a post keeps the types.
LEMMA SetDocumentType ==
  ASSUME NEW project \in Project, NEW d \in Docs, NEW u \in Nat
  PROVE  /\ [project EXCEPT ![d] = Published(@, u)] \in Project
         /\ [project EXCEPT ![d] = Posted(@, u)] \in Project
BY DEF Project, DocumentState, Published, Posted
=============================================================================
