------------------------------ MODULE QrCodes ------------------------------
(***************************************************************************)
(* The QR manager: its API (QrCodeService, QrCodeMongoRepository and the    *)
(* handlers), the administrators' pages that call it, and the scans of      *)
(* printed labels.  The database is external: one call is one atomic step,  *)
(* and a call may fail before or after it took effect.                      *)
(***************************************************************************)
EXTENDS Naturals, FiniteSets, Functions, Absence

CONSTANTS Admins, Ids, Slugs, Targets, INSERT_ATTEMPTS

\* A document, one that is to be created, a label, and the answer to a scan.
Code == [slug : Slugs, target : Targets, active : BOOLEAN]
Drafts == [slug : Slugs, target : Targets, active : {TRUE}]
Labels == [id : Ids, slug : Slugs]
Answers == [to : Ids \cup {None}, stored : BOOLEAN]

ASSUME CodesAssumption ==
    INSERT_ATTEMPTS \in Nat \ {0} /\ None \notin Ids \cup Labels \cup Answers

VARIABLES
    codes,     \* the stored documents, by id
    used,      \* every id the database has given out
    view,      \* what each administrator's page shows or waits for
    label,     \* the label that was printed: the record's id and slug
    scan,      \* what the last scan of that label was answered
    toggled    \* the flag last asked for, by id

qvars == <<codes, used, view, label, scan, toggled>>

\* Every page is made of the same fields.
Page(at, id, copy, sent, tries) ==
    [at |-> at, id |-> id, copy |-> copy, sent |-> sent, tries |-> tries]
ListPage == Page("list", None, None, None, 0)
Sent == [target : Targets] \cup [active : BOOLEAN]
Pages ==
    {ListPage} \cup {Page("creating", None, None, draft, n) : draft \in Drafts, n \in 1..INSERT_ATTEMPTS}
    \cup {Page(at, id, copy, None, 0) : at \in {"shown", "removing", "deleting"}, id \in used, copy \in Code}
    \cup {Page("updating", id, copy, sent, 0) : id \in used, copy \in Code, sent \in Sent}

CodesTypeOK ==
    /\ used \subseteq Ids /\ codes \in UNION {[S -> Code] : S \in SUBSET used}
    /\ toggled \in [used -> BOOLEAN] /\ view \in [Admins -> Pages]
    /\ label \in Labels \cup {None} /\ scan \in Answers \cup {None}

Show(id) == Page("shown", id, codes[id], None, 0)

CodesInit ==
    /\ codes = << >> /\ used = {} /\ toggled = << >>
    /\ view = [a \in Admins |-> ListPage]
    /\ label = None /\ scan = None

Turn(a, p) == view' = [view EXCEPT ![a] = p]
Asks(a, at, sent) == Turn(a, Page(at, view[a].id, view[a].copy, sent, 0))
Draws(a, slug, n) == Turn(a, Page("creating", None, None, [view[a].sent EXCEPT !.slug = slug], n))

\* The page was not told what it asked for: it shows the error and stays.
Failed(a) == Turn(a, IF view[a].id = None THEN ListPage ELSE Page("shown", view[a].id, view[a].copy, None, 0))

\* Mutant: nothing keeps two documents from having one slug.
NotUnique(slug) == TRUE

\* The unique index on slug.
Unique(slug) == \A id \in DOMAIN codes : codes[id].slug # slug

\* submit, and the first slug that is drawn.
Create(a) ==
    /\ view[a].at = "list"
    /\ \E slug \in Slugs, target \in Targets :
          Turn(a, Page("creating", None, None, [slug |-> slug, target |-> target, active |-> TRUE], 1))
    /\ UNCHANGED <<codes, used, label, scan, toggled>>

\* repository.create: the document is stored under a fresh id, and the page
\* goes to it unless the answer is lost.
Insert(a) ==
    /\ view[a].at = "creating" /\ Unique(view[a].sent.slug)
    /\ \E id \in Ids \ used :
          /\ used' = used \cup {id}
          /\ codes' = [i \in DOMAIN codes \cup {id} |-> IF i = id THEN view[a].sent ELSE codes[i]]
          /\ toggled' = [i \in DOMAIN toggled \cup {id} |-> IF i = id THEN TRUE ELSE toggled[i]]
          /\ Turn(a, Page("shown", id, view[a].sent, None, 0)) \/ Turn(a, ListPage)
    /\ UNCHANGED <<label, scan>>

\* Mutant: the draw is repeated until a slug is free.
CollisionForEver(a) ==
    /\ view[a].at = "creating" /\ ~ Unique(view[a].sent.slug)
    /\ \E slug \in Slugs : Draws(a, slug, view[a].tries)
    /\ UNCHANGED <<codes, used, label, scan, toggled>>

\* create, the catch: another slug is drawn, so often, and then it is a Conflict.
Collision(a) ==
    /\ view[a].at = "creating" /\ ~ Unique(view[a].sent.slug)
    /\ IF view[a].tries < INSERT_ATTEMPTS
       THEN \E slug \in Slugs :
               Draws(a, slug, view[a].tries + 1)
       ELSE Failed(a)
    /\ UNCHANGED <<codes, used, label, scan, toggled>>

\* Any request may fail without an effect.
RequestFails(a) ==
    /\ view[a].at \in {"creating", "updating", "removing", "deleting"}
    /\ Failed(a)
    /\ UNCHANGED <<codes, used, label, scan, toggled>>

\* The detail page fetches the list and shows the record it finds there.
Open(a) ==
    /\ view[a].at = "list"
    /\ \E id \in DOMAIN codes : Turn(a, Show(id))
    /\ UNCHANGED <<codes, used, label, scan, toggled>>

Close(a) ==
    /\ view[a].at = "shown" /\ Turn(a, ListPage)
    /\ UNCHANGED <<codes, used, label, scan, toggled>>

\* save: only the fields of the form are sent, and the flag is not one of them.
Save(a) ==
    /\ view[a].at = "shown"
    /\ \E target \in Targets : Asks(a, "updating", [target |-> target])
    /\ UNCHANGED <<codes, used, label, scan, toggled>>

\* toggleActive: the opposite of what the page shows, which may be old.
Toggle(a) ==
    /\ view[a].at = "shown"
    /\ Asks(a, "updating", [active |-> ~ view[a].copy.active])
    /\ UNCHANGED <<codes, used, label, scan, toggled>>

\* QrCodeUpdateHandler: the fields sent are set in one step, or there is no
\* such document any more.
Update(a) ==
    /\ view[a].at = "updating"
    /\ LET id == view[a].id
           sent == view[a].sent
           updated == [f \in DOMAIN codes[id] |-> IF f \in DOMAIN sent THEN sent[f] ELSE codes[id][f]]
       IN  IF id \in DOMAIN codes
           THEN /\ codes' = [codes EXCEPT ![id] = updated]
                /\ toggled' = IF DOMAIN sent = {"active"} THEN [toggled EXCEPT ![id] = sent.active] ELSE toggled
                /\ Turn(a, Page("shown", id, updated, None, 0)) \/ Failed(a)
           ELSE Failed(a) /\ UNCHANGED <<codes, toggled>>
    /\ UNCHANGED <<used, label, scan>>

\* QrCodeDeleteHandler: looks the document up, and then deletes it, whether or
\* not somebody else did so in between.
Remove(a) ==
    /\ view[a].at = "shown"
    /\ Asks(a, "removing", None)
    /\ UNCHANGED <<codes, used, label, scan, toggled>>

LookUp(a) ==
    /\ view[a].at = "removing"
    /\ IF view[a].id \in DOMAIN codes THEN Asks(a, "deleting", None) ELSE Failed(a)
    /\ UNCHANGED <<codes, used, label, scan, toggled>>

Delete(a) ==
    /\ view[a].at = "deleting"
    /\ codes' = Restrict(codes, DOMAIN codes \ {view[a].id})
    /\ Turn(a, ListPage) \/ Failed(a)
    /\ UNCHANGED <<used, label, scan, toggled>>

\* QrCodeImageHandler: the image is of the stored slug.
PrintLabel(a) ==
    /\ view[a].at = "shown" /\ view[a].id \in DOMAIN codes
    /\ label' = [id |-> view[a].id, slug |-> codes[view[a].id].slug]
    /\ scan' = None
    /\ UNCHANGED <<codes, used, view, toggled>>

\* findBySlug; and RedirectController with its handler: an active record with this
\* slug, or nothing.  "stored" tells of the label's own record at that moment.  A
\* lookup that takes too long, or while the circuit is open, tells nothing.
FindBySlug(slug) == {id \in DOMAIN codes : codes[id].slug = slug}

Resolved(slug) == {id \in FindBySlug(slug) : codes[id].active}

Redirect ==
    /\ label # None
    /\ \E to \in IF Resolved(label.slug) = {} THEN {None} ELSE Resolved(label.slug) :
          scan' = [to |-> to, stored |-> label.id \in DOMAIN codes]
    /\ UNCHANGED <<codes, used, view, label, toggled>>

LookupFails ==
    /\ label # None /\ scan' = None
    /\ UNCHANGED <<codes, used, view, label, toggled>>

CodesNext ==
    \/ \E a \in Admins :
          \/ Create(a) \/ Insert(a) \/ Collision(a) \/ RequestFails(a) \/ Open(a) \/ Close(a)
          \/ Save(a) \/ Toggle(a) \/ Update(a) \/ Remove(a) \/ LookUp(a) \/ Delete(a) \/ PrintLabel(a)
    \/ Redirect \/ LookupFails

CodesSpec == CodesInit /\ [][CodesNext]_qvars

\* The database answers.  The ids are bounded: without one left an insertion fails.
CodesFairness ==
    \A a \in Admins : WF_qvars(Insert(a) \/ Collision(a) \/ (used = Ids /\ RequestFails(a)))

-----------------------------------------------------------------------------
\* A label leads to the record it was printed for as long as that record is
\* stored, whatever else is created, deleted and drawn again meanwhile
\* (QrCodeMongoDTO.slug, QrCodeService.create).
LabelLeadsHome == scan # None /\ scan.to # None => scan.to = label.id \/ ~ scan.stored

\* A code is active as it was last asked to be: an administrator who saves an
\* old page does not switch it on again (QrCodeDetailPage.save, buildMongoUpdate).
ActiveAsToggled == \A id \in DOMAIN codes : codes[id].active = toggled[id]

\* Labels and flags tell the truth.
CodesSound == LabelLeadsHome /\ ActiveAsToggled

\* Creating a code comes to an end, however often the slug is taken
\* (INSERT_ATTEMPTS).
CreateSettles == \A a \in Admins : view[a].at = "creating" ~> view[a].at # "creating"
=============================================================================
