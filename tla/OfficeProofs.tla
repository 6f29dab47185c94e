---------------------------- MODULE OfficeProofs ----------------------------
(***************************************************************************)
(* What the back office keeps in two places, for any rows and any number   *)
(* of concurrent requests: the picture of a proposal, a file beside a row  *)
(* (Proposals, PicturesAgree), and the lists of a product (Catalog,        *)
(* ListsAreKept); what the store lists of the catalogue (Storefront,       *)
(* ListsKeepPromise); who gets in (Access, StaffAreThemselves); and what   *)
(* the dashboards draw of the shifts (Analytics, PagesAgree).              *)
(***************************************************************************)
EXTENDS Proposals, Storefront, Access, Analytics, CoinSumsProofs, WellFoundedInduction, TLAPS

(* Proposals.                                                              *)

\* The types of ProposalsTypeOK; an upload has a picture until it is over.
Typed ==
    /\ ProposalsTypeOK
    /\ \A r \in Request :
          errand[r] # Idle /\ errand[r].stage \in {"read", "cleared", "saved"}
             => errand[r].new \in Picture

Works(r, p) == errand[r] # Idle /\ errand[r].proposal = p
Settled(p) == files[p] = {proposal[p].image} \ {NoPicture}

\* How far request r has come with proposal p, when it is alone with it.
InStep(r, p) ==
    LET task == errand[r] IN
    \/ /\ task.stage \in {"read", "found"}
       /\ Exists(p) /\ Settled(p) /\ task.old = proposal[p].image
    \/ task.stage = "cleared" /\ Exists(p) /\ files[p] = {}
    \/ task.stage = "saved" /\ Exists(p) /\ files[p] = {task.new}
    \/ /\ task.stage = "deleted"
       /\ proposal[p] = GoneProposal /\ files[p] = {task.old} \ {NoPicture}

(* What makes row and file agree again at the end of an errand: a proposal  *)
(* not in doubt has at most one errand, whose stage tells which of the two  *)
(* is ahead; with none, they agree.                                         *)
InOrder(p) ==
    /\ (\A r \in Request : ~ Works(r, p)) => Settled(p)
    /\ \A r, q \in Request : Works(r, p) /\ Works(q, p) => r = q
    /\ \A r \in Request : Works(r, p) => InStep(r, p)

PicturesInv == Typed /\ \A p \in Proposal \ shaky : InOrder(p)

-----------------------------------------------------------------------------

LEMMA Kinds ==
    /\ \A task \in ErrandTask : task # Idle
    /\ Idle.stage \notin {"read", "cleared", "saved", "found", "deleted"}
    /\ \A row \in ProposalRow : row.state = "there"
    /\ NoProposal.state = "none" /\ NoProposal.image = NoPicture
    /\ GoneProposal.state = "gone" /\ GoneProposal.image = NoPicture
BY DEF ErrandTask, Idle, ProposalRow, NoProposal, GoneProposal

\* A row that is there is a row of the table.
LEMMA ThereIsRow ==
    ASSUME ProposalsTypeOK, NEW p \in Proposal, Exists(p)
    PROVE  proposal[p] \in ProposalRow
BY Kinds DEF ProposalsTypeOK, Exists

\* Statements that write rows only: images stay, rows that are there stay, and
\* those that are gone are not written.
LEMMA RowsKeep ==
    ASSUME PicturesInv,
           proposal' \in [Proposal -> ProposalRow \cup {NoProposal, GoneProposal}],
           \A p \in Proposal : /\ proposal'[p].image = proposal[p].image
                               /\ Exists(p) => Exists(p)'
                               /\ proposal[p] = GoneProposal => proposal'[p] = GoneProposal,
           UNCHANGED <<files, errand, shaky>>
    PROVE  PicturesInv'
<1>1. Typed'
  BY DEF PicturesInv, Typed, ProposalsTypeOK
<1>2. ASSUME NEW p \in Proposal \ shaky'  PROVE InOrder(p)'
  <2>1. InOrder(p)
    BY <1>2 DEF PicturesInv
  <2>2. Settled(p)' <=> Settled(p)
    BY DEF Settled
  <2>3. \A r \in Request : /\ Works(r, p)' <=> Works(r, p)
                           /\ InStep(r, p) => InStep(r, p)'
    BY <2>2 DEF Works, InStep
  <2> QED  BY <2>1, <2>2, <2>3 DEF InOrder
<1> QED  BY <1>1, <1>2 DEF PicturesInv

\* A step of request r on proposal p leaves the other proposals as they were: what
\* is left to show is that p is in doubt, or in order.
LEMMA ErrandKeeps ==
    ASSUME PicturesInv, NEW r \in Request, NEW p \in Proposal,
           Typed', shaky \subseteq shaky', shaky' \subseteq shaky \cup {p},
           \A q \in Request \ {r} : errand'[q] = errand[q],
           errand[r] = Idle \/ errand[r].proposal = p,
           errand'[r] = Idle \/ errand'[r].proposal = p,
           \A o \in Proposal \ {p} : proposal'[o] = proposal[o] /\ files'[o] = files[o],
           p \in shaky' \/ InOrder(p)'
    PROVE  PicturesInv'
<1>1. ASSUME NEW o \in Proposal \ shaky', o # p  PROVE InOrder(o)'
  <2>1. InOrder(o)
    BY <1>1 DEF PicturesInv
  <2>2. \A q \in Request : Works(q, o)' <=> Works(q, o)
    BY <1>1 DEF Works
  <2>3. \A q \in Request : Works(q, o) => InStep(q, o)' = InStep(q, o)
    BY <1>1 DEF Works, InStep, Settled, Exists
  <2> QED  BY <1>1, <2>1, <2>2, <2>3 DEF InOrder, Settled
<1> QED  BY <1>1 DEF PicturesInv

\* When r is the only request that works on p, what it shows of p is what is left.
LEMMA AloneIsInOrder ==
    ASSUME NEW r \in Request, NEW p \in Proposal,
           \A q \in Request : Works(q, p)' => q = r,
           IF Works(r, p)' THEN InStep(r, p)' ELSE Settled(p)'
    PROVE  InOrder(p)'
BY DEF InOrder

\* An errand under way is a task; its proposal, if it is not in doubt, is in step
\* with it and with nothing else.
LEMMA UnderWay ==
    ASSUME PicturesInv, NEW r \in Request, errand[r] # Idle
    PROVE  /\ errand[r] \in ErrandTask /\ errand[r].proposal \in Proposal
           /\ errand[r].proposal \notin shaky =>
                /\ InStep(r, errand[r].proposal)
                /\ \A q \in Request : Works(q, errand[r].proposal) => q = r
BY DEF PicturesInv, Typed, ProposalsTypeOK, ErrandTask, InOrder, Works

-----------------------------------------------------------------------------

LEMMA InitIsInOrder == ASSUME ProposalsInit PROVE PicturesInv
<1>1. Typed
  BY DEF ProposalsInit, Typed, ProposalsTypeOK
<1>2. \A p \in Proposal : Settled(p) /\ \A r \in Request : ~ Works(r, p)
  BY Kinds DEF ProposalsInit, Settled, Works
<1> QED  BY <1>1, <1>2 DEF PicturesInv, InOrder

LEMMA BeginKeeps ==
    ASSUME PicturesInv, NEW r \in Request, NEW p \in Proposal, NEW stage, NEW new,
           \/ stage = "read" /\ new \in Picture
           \/ stage = "found" /\ new = NoPicture,
           BeginErrand(r, stage, p, new)
    PROVE  PicturesInv'
<1> DEFINE task == [stage |-> stage, proposal |-> p, new |-> new, old |-> proposal[p].image]
<1>1. /\ errand[r] = Idle /\ Exists(p) /\ errand' = [errand EXCEPT ![r] = task]
      /\ shaky' = IF Busy(p) THEN shaky \cup {p} ELSE shaky
      /\ proposal' = proposal /\ files' = files
  BY DEF BeginErrand
<1>2. proposal[p].image \in Picture \cup {NoPicture}
  BY <1>1, ThereIsRow DEF PicturesInv, Typed, ProposalRow
<1>3. task \in ErrandTask /\ task # Idle
  BY <1>2, Kinds DEF ErrandTask
<1>4. errand'[r] = task /\ \A q \in Request \ {r} : errand'[q] = errand[q]
  BY <1>1 DEF PicturesInv, Typed, ProposalsTypeOK
<1>5. Typed'
  <2>1. ProposalsTypeOK'
    BY <1>1, <1>3 DEF PicturesInv, Typed, ProposalsTypeOK
  <2>2. task.stage \in {"read", "cleared", "saved"} => task.new \in Picture
    OBVIOUS
  <2> HIDE DEF task
  <2> QED  BY <1>4, <2>1, <2>2 DEF PicturesInv, Typed
<1>6. ASSUME p \notin shaky'  PROVE InOrder(p)'
  <2>1. p \notin shaky /\ \A q \in Request : ~ Works(q, p)
    BY <1>1, <1>6 DEF Busy, Works
  <2>2. Settled(p)
    BY <2>1 DEF PicturesInv, InOrder
  <2>3. \A q \in Request : Works(q, p)' => q = r
    BY <1>4, <2>1 DEF Works
  <2>4. InStep(r, p)'
    BY <1>1, <1>4, <2>2 DEF InStep, Settled, Exists
  <2>5. Works(r, p)'
    BY <1>3, <1>4 DEF Works
  <2> QED  BY <2>3, <2>4, <2>5, AloneIsInOrder
<1>7. errand'[r].proposal = p
  BY <1>4
<1> QED  BY <1>1, <1>4, <1>5, <1>6, <1>7, ErrandKeeps

\* The stages of a request that goes on: only its own slot and its own proposal
\* change, and it stays alone.
LEMMA GoesKeepsTypes ==
    ASSUME PicturesInv, NEW r \in Request, errand[r] # Idle,
           NEW stage \in {"cleared", "saved", "deleted"},
           stage \in {"cleared", "saved"} => errand[r].new \in Picture,
           Goes(r, stage),
           proposal' \in [Proposal -> ProposalRow \cup {NoProposal, GoneProposal}],
           files' \in [Proposal -> SUBSET Picture],
           shaky' \subseteq Proposal
    PROVE  /\ Typed'
           /\ errand'[r] # Idle /\ errand'[r].stage = stage
           /\ errand'[r].proposal = errand[r].proposal
           /\ errand'[r].new = errand[r].new /\ errand'[r].old = errand[r].old
           /\ \A q \in Request \ {r} : errand'[q] = errand[q]
<1> DEFINE task == [errand[r] EXCEPT !.stage = stage]
<1>1. errand[r] \in ErrandTask
  BY UnderWay
<1>2. /\ task \in ErrandTask /\ task.stage = stage
      /\ task.proposal = errand[r].proposal
      /\ task.new = errand[r].new /\ task.old = errand[r].old
  BY <1>1 DEF ErrandTask
<1>3. errand' = [errand EXCEPT ![r] = task]
  BY DEF Goes
<1> HIDE DEF task
<1>4. errand'[r] = task /\ \A q \in Request \ {r} : errand'[q] = errand[q]
  BY <1>3 DEF PicturesInv, Typed, ProposalsTypeOK
<1>5. ProposalsTypeOK'
  BY <1>2, <1>3 DEF PicturesInv, Typed, ProposalsTypeOK
<1>6. Typed'
  BY <1>2, <1>4, <1>5 DEF PicturesInv, Typed
<1> QED  BY <1>2, <1>4, <1>6, Kinds

LEMMA AnswerKeepsTypes ==
    ASSUME PicturesInv, NEW r \in Request, errand' = Answered(errand, r),
           proposal' \in [Proposal -> ProposalRow \cup {NoProposal, GoneProposal}],
           files' \in [Proposal -> SUBSET Picture],
           shaky' \subseteq Proposal
    PROVE  /\ Typed' /\ errand'[r] = Idle
           /\ \A q \in Request \ {r} : errand'[q] = errand[q]
<1>1. errand'[r] = Idle /\ \A q \in Request \ {r} : errand'[q] = errand[q]
  BY DEF PicturesInv, Typed, ProposalsTypeOK, Answered
<1>2. ProposalsTypeOK'
  BY DEF PicturesInv, Typed, ProposalsTypeOK, Answered
<1> QED  BY <1>1, <1>2 DEF PicturesInv, Typed

-----------------------------------------------------------------------------

LEMMA RemoveOldKeeps ==
    ASSUME PicturesInv, NEW r \in Request, RemoveOldPicture(r)
    PROVE  PicturesInv'
<1>0. errand[r] # Idle
  BY DEF RemoveOldPicture, At
<1> PICK p \in Proposal : errand[r].proposal = p
  BY <1>0, UnderWay
<1>1. /\ errand[r] # Idle /\ errand[r].stage = "read" /\ Goes(r, "cleared")
      /\ proposal' = proposal
      /\ \/ files' = [files EXCEPT ![p] = @ \ {errand[r].old}] /\ shaky' = shaky
         \/ shaky' = shaky \cup {p} /\ files' = files
  BY DEF RemoveOldPicture, RemoveFile, At
<1>2. errand[r].new \in Picture
  BY <1>1, UnderWay DEF PicturesInv, Typed
<1>3. /\ files' \in [Proposal -> SUBSET Picture] /\ shaky' \subseteq Proposal
      /\ \A o \in Proposal \ {p} : files'[o] = files[o]
  BY <1>1, <1>2 DEF PicturesInv, Typed, ProposalsTypeOK
<1>4. /\ Typed' /\ errand'[r] # Idle /\ errand'[r].stage = "cleared"
      /\ errand'[r].proposal = p
      /\ \A q \in Request \ {r} : errand'[q] = errand[q]
  BY <1>1, <1>2, <1>3, GoesKeepsTypes DEF PicturesInv, Typed, ProposalsTypeOK
<1>5. ASSUME p \notin shaky'  PROVE InOrder(p)'
  <2>1. p \notin shaky /\ files'[p] = files[p] \ {errand[r].old}
    BY <1>1, <1>2, <1>5 DEF PicturesInv, Typed, ProposalsTypeOK
  <2>2. InStep(r, p) /\ \A q \in Request : Works(q, p) => q = r
    BY <1>1, <2>1, UnderWay
  <2>3. files'[p] = {} /\ Exists(p)'
    BY <1>1, <2>1, <2>2 DEF InStep, Settled, Exists
  <2>4. InStep(r, p)' /\ \A q \in Request : Works(q, p)' => q = r
    BY <1>4, <2>2, <2>3 DEF InStep, Works
  <2> QED  BY <1>2, <1>4, <2>4, AloneIsInOrder DEF Works
<1> QED  BY <1>1, <1>2, <1>3, <1>4, <1>5, ErrandKeeps

LEMMA SaveKeeps ==
    ASSUME PicturesInv, NEW r \in Request, SavePicture(r)
    PROVE  PicturesInv'
<1>0. errand[r] # Idle
  BY DEF SavePicture, At
<1> PICK p \in Proposal : errand[r].proposal = p
  BY <1>0, UnderWay
<1>1. /\ errand[r] # Idle /\ errand[r].stage = "cleared" /\ Goes(r, "saved")
      /\ proposal' = proposal /\ shaky' = shaky
      /\ files' = [files EXCEPT ![p] = @ \cup {errand[r].new}]
  BY DEF SavePicture, At
<1>2. errand[r].new \in Picture
  BY <1>1, UnderWay DEF PicturesInv, Typed
<1>3. /\ files' \in [Proposal -> SUBSET Picture]
      /\ files'[p] = files[p] \cup {errand[r].new}
      /\ \A o \in Proposal \ {p} : files'[o] = files[o]
  BY <1>1, <1>2 DEF PicturesInv, Typed, ProposalsTypeOK
<1>4. /\ Typed' /\ errand'[r] # Idle /\ errand'[r].stage = "saved"
      /\ errand'[r].proposal = p /\ errand'[r].new = errand[r].new
      /\ \A q \in Request \ {r} : errand'[q] = errand[q]
  BY <1>1, <1>2, <1>3, GoesKeepsTypes DEF PicturesInv, Typed, ProposalsTypeOK
<1>5. ASSUME p \notin shaky'  PROVE InOrder(p)'
  <2>1. InStep(r, p) /\ \A q \in Request : Works(q, p) => q = r
    BY <1>1, <1>5, UnderWay
  <2>2. files'[p] = {errand[r].new} /\ Exists(p)'
    BY <1>1, <1>3, <2>1 DEF InStep, Exists
  <2>3. InStep(r, p)' /\ \A q \in Request : Works(q, p)' => q = r
    BY <1>4, <2>1, <2>2 DEF InStep, Works
  <2> QED  BY <1>2, <1>4, <2>3, AloneIsInOrder DEF Works
<1> QED  BY <1>1, <1>2, <1>3, <1>4, <1>5, ErrandKeeps

LEMMA SetImageKeeps ==
    ASSUME PicturesInv, NEW r \in Request, SetImageFile(r)
    PROVE  PicturesInv'
<1>0. errand[r] # Idle
  BY DEF SetImageFile, At
<1> PICK p \in Proposal : errand[r].proposal = p
  BY <1>0, UnderWay
<1>1. /\ errand[r] # Idle /\ errand[r].stage = "saved"
      /\ errand' = Answered(errand, r) /\ files' = files /\ shaky' = shaky
      /\ proposal' = IF Exists(p) THEN [proposal EXCEPT ![p].image = errand[r].new]
                     ELSE proposal
  BY DEF SetImageFile, At
<1>2. errand[r].new \in Picture
  BY <1>1, UnderWay DEF PicturesInv, Typed
<1>3. /\ proposal' \in [Proposal -> ProposalRow \cup {NoProposal, GoneProposal}]
      /\ \A o \in Proposal \ {p} : proposal'[o] = proposal[o]
      /\ Exists(p) => proposal'[p].image = errand[r].new
  <2>1. CASE Exists(p)
    <3>1. proposal[p] \in ProposalRow
      BY <1>2, <2>1, ThereIsRow DEF PicturesInv, Typed
    <3> DEFINE row == [proposal[p] EXCEPT !.image = errand[r].new]
    <3>2. row \in ProposalRow /\ row.image = errand[r].new
      BY <1>2, <3>1 DEF ProposalRow
    <3>3. proposal' = [proposal EXCEPT ![p] = row]
      BY <1>1, <2>1
    <3> HIDE DEF row
    <3> QED  BY <1>2, <3>2, <3>3 DEF PicturesInv, Typed, ProposalsTypeOK
  <2>2. CASE ~ Exists(p)
    BY <1>1, <2>2 DEF PicturesInv, Typed, ProposalsTypeOK
  <2> QED  BY <2>1, <2>2
<1>4. Typed' /\ errand'[r] = Idle /\ \A q \in Request \ {r} : errand'[q] = errand[q]
  BY <1>1, <1>3, AnswerKeepsTypes DEF PicturesInv, Typed, ProposalsTypeOK
<1>5. ASSUME p \notin shaky'  PROVE InOrder(p)'
  <2>1. InStep(r, p) /\ \A q \in Request : Works(q, p) => q = r
    BY <1>1, <1>5, UnderWay
  <2>2. files[p] = {errand[r].new} /\ Exists(p)
    BY <1>1, <2>1 DEF InStep
  <2>3. Settled(p)'
    BY <1>1, <1>2, <1>3, <2>2, ProposalsAssumption DEF Settled
  <2>4. \A q \in Request : ~ Works(q, p)'
    BY <1>4, <2>1 DEF Works
  <2> QED  BY <1>2, <2>3, <2>4, AloneIsInOrder
<1> QED  BY <1>1, <1>2, <1>3, <1>4, <1>5, ErrandKeeps

LEMMA DeleteRowKeeps ==
    ASSUME PicturesInv, NEW r \in Request, DeleteRow(r)
    PROVE  PicturesInv'
<1>0. errand[r] # Idle
  BY DEF DeleteRow, At
<1> PICK p \in Proposal : errand[r].proposal = p
  BY <1>0, UnderWay
<1>1. /\ errand[r] # Idle /\ errand[r].stage = "found" /\ Goes(r, "deleted")
      /\ files' = files /\ shaky' = shaky
      /\ proposal' = [proposal EXCEPT ![p] = GoneProposal]
  BY DEF DeleteRow, At
<1>3. /\ proposal' \in [Proposal -> ProposalRow \cup {NoProposal, GoneProposal}]
      /\ proposal'[p] = GoneProposal
      /\ \A o \in Proposal \ {p} : proposal'[o] = proposal[o]
  BY <1>1 DEF PicturesInv, Typed, ProposalsTypeOK
<1>4. /\ Typed' /\ errand'[r] # Idle /\ errand'[r].stage = "deleted"
      /\ errand'[r].proposal = p /\ errand'[r].old = errand[r].old
      /\ \A q \in Request \ {r} : errand'[q] = errand[q]
  BY <1>1, <1>3, GoesKeepsTypes DEF PicturesInv, Typed, ProposalsTypeOK
<1>5. ASSUME p \notin shaky'  PROVE InOrder(p)'
  <2>1. InStep(r, p) /\ \A q \in Request : Works(q, p) => q = r
    BY <1>1, <1>5, UnderWay
  <2>2. files'[p] = {errand[r].old} \ {NoPicture}
    BY <1>1, <2>1 DEF InStep, Settled
  <2>3. InStep(r, p)' /\ \A q \in Request : Works(q, p)' => q = r
    BY <1>3, <1>4, <2>1, <2>2 DEF InStep, Works
  <2> QED  BY <1>4, <2>3, AloneIsInOrder DEF Works
<1> QED  BY <1>1, <1>3, <1>4, <1>5, ErrandKeeps

LEMMA RemovePictureKeeps ==
    ASSUME PicturesInv, NEW r \in Request, RemovePicture(r)
    PROVE  PicturesInv'
<1>0. errand[r] # Idle
  BY DEF RemovePicture, At
<1> PICK p \in Proposal : errand[r].proposal = p
  BY <1>0, UnderWay
<1>1. /\ errand[r] # Idle /\ errand[r].stage = "deleted"
      /\ errand' = Answered(errand, r) /\ proposal' = proposal
      /\ \/ files' = [files EXCEPT ![p] = @ \ {errand[r].old}] /\ shaky' = shaky
         \/ shaky' = shaky \cup {p} /\ files' = files
  BY DEF RemovePicture, RemoveFile, At
<1>3. /\ files' \in [Proposal -> SUBSET Picture] /\ shaky' \subseteq Proposal
      /\ \A o \in Proposal \ {p} : files'[o] = files[o]
  BY <1>1 DEF PicturesInv, Typed, ProposalsTypeOK
<1>4. Typed' /\ errand'[r] = Idle /\ \A q \in Request \ {r} : errand'[q] = errand[q]
  BY <1>1, <1>3, AnswerKeepsTypes DEF PicturesInv, Typed, ProposalsTypeOK
<1>5. ASSUME p \notin shaky'  PROVE InOrder(p)'
  <2>1. p \notin shaky /\ files'[p] = files[p] \ {errand[r].old}
    BY <1>1, <1>5 DEF PicturesInv, Typed, ProposalsTypeOK
  <2>2. InStep(r, p) /\ \A q \in Request : Works(q, p) => q = r
    BY <1>1, <2>1, UnderWay
  <2>3. Settled(p)'
    BY <1>1, <2>1, <2>2, Kinds DEF InStep, Settled
  <2>4. \A q \in Request : ~ Works(q, p)'
    BY <1>4, <2>2 DEF Works
  <2> QED  BY <2>3, <2>4, AloneIsInOrder
<1> QED  BY <1>1, <1>3, <1>4, <1>5, ErrandKeeps

LEMMA DropKeeps ==
    ASSUME PicturesInv, NEW r \in Request, DropErrand(r)
    PROVE  PicturesInv'
<1>0. errand[r] # Idle
  BY DEF DropErrand, At
<1> PICK p \in Proposal : errand[r].proposal = p
  BY <1>0, UnderWay
<1>1. /\ errand[r] # Idle /\ errand' = Answered(errand, r)
      /\ proposal' = proposal /\ files' = files
      /\ shaky' = IF errand[r].stage \in {"read", "found"} THEN shaky
                  ELSE shaky \cup {p}
  BY DEF DropErrand
<1>3. shaky' \subseteq Proposal
  BY <1>1 DEF PicturesInv, Typed, ProposalsTypeOK
<1>4. Typed' /\ errand'[r] = Idle /\ \A q \in Request \ {r} : errand'[q] = errand[q]
  BY <1>1, <1>3, AnswerKeepsTypes DEF PicturesInv, Typed, ProposalsTypeOK
<1>5. ASSUME p \notin shaky'  PROVE InOrder(p)'
  <2>1. p \notin shaky /\ errand[r].stage \in {"read", "found"}
    BY <1>1, <1>5
  <2>2. InStep(r, p) /\ \A q \in Request : Works(q, p) => q = r
    BY <1>1, <2>1, UnderWay
  <2>3. Settled(p)'
    BY <1>1, <2>1, <2>2 DEF InStep, Settled
  <2>4. \A q \in Request : ~ Works(q, p)'
    BY <1>4, <2>2 DEF Works
  <2> QED  BY <2>3, <2>4, AloneIsInOrder
<1> QED  BY <1>1, <1>3, <1>4, <1>5, ErrandKeeps

-----------------------------------------------------------------------------

\* New proposals, edits and fulfilments write rows only.
LEMMA TableKeeps ==
    ASSUME PicturesInv,
           \/ \E P \in SUBSET Proposal, b \in Shop : NewProposals(P, b) \/ Fulfill(P, b)
           \/ \E p \in Proposal, b \in Shop \cup {OtherShop}, f \in BOOLEAN :
                 EditProposal(p, b, f)
    PROVE  PicturesInv'
<1>1. ASSUME NEW P \in SUBSET Proposal, NEW b \in Shop, NewProposals(P, b)
      PROVE  PicturesInv'
  <2> DEFINE row == [state |-> "there", branch |-> b, fulfilled |-> FALSE,
                     image |-> NoPicture]
  <2>1. row \in ProposalRow
    BY DEF ProposalRow
  <2>2. proposal' \in [Proposal -> ProposalRow \cup {NoProposal, GoneProposal}]
    BY <1>1, <2>1 DEF NewProposals, CreateMany, PicturesInv, Typed, ProposalsTypeOK
  <2>3. \A p \in Proposal : IF p \in P THEN proposal[p] = NoProposal /\ proposal'[p] = row
                            ELSE proposal'[p] = proposal[p]
    BY <1>1 DEF NewProposals, CreateMany
  <2>4. NoProposal # GoneProposal
    BY Kinds
  <2> QED  BY <1>1, <2>2, <2>3, <2>4, Kinds, RowsKeep DEF NewProposals, Exists
<1>2. ASSUME NEW P \in SUBSET Proposal, NEW b \in Shop, Fulfill(P, b)
      PROVE  PicturesInv'
  <2>1. \A p \in Proposal :
           \/ proposal'[p] = proposal[p]
           \/ Exists(p) /\ proposal'[p] = [proposal[p] EXCEPT !.fulfilled = TRUE]
    BY <1>2 DEF Fulfill, Fulfilled
  <2>2. \A p \in Proposal : Exists(p) =>
           /\ [proposal[p] EXCEPT !.fulfilled = TRUE] \in ProposalRow
           /\ [proposal[p] EXCEPT !.fulfilled = TRUE].image = proposal[p].image
           /\ [proposal[p] EXCEPT !.fulfilled = TRUE].state = "there"
    BY ThereIsRow DEF PicturesInv, Typed, ProposalRow
  <2>3. proposal' \in [Proposal -> ProposalRow \cup {NoProposal, GoneProposal}]
    BY <1>2, <2>2 DEF Fulfill, Fulfilled, PicturesInv, Typed, ProposalsTypeOK
  <2> QED  BY <1>2, <2>1, <2>2, <2>3, Kinds, RowsKeep DEF Fulfill, Exists
<1>3. ASSUME NEW p \in Proposal, NEW b \in Shop \cup {OtherShop}, NEW f \in BOOLEAN,
             EditProposal(p, b, f)
      PROVE  PicturesInv'
  <2> DEFINE row == [proposal[p] EXCEPT !.branch = b, !.fulfilled = f]
  <2>1. proposal[p] \in ProposalRow /\ Exists(p)
    BY <1>3, ThereIsRow DEF EditProposal, PicturesInv, Typed
  <2>2. row \in ProposalRow /\ row.image = proposal[p].image /\ row.state = "there"
    BY <2>1 DEF ProposalRow
  <2>3. proposal' = [proposal EXCEPT ![p] = row]
    BY <1>3, <2>1 DEF EditProposal, UpdateRow, PicturesInv, Typed, ProposalsTypeOK
  <2> HIDE DEF row
  <2>4. proposal' \in [Proposal -> ProposalRow \cup {NoProposal, GoneProposal}]
    BY <2>2, <2>3 DEF PicturesInv, Typed, ProposalsTypeOK
  <2>5. \A o \in Proposal : proposal'[o] = IF o = p THEN row ELSE proposal[o]
    BY <2>3 DEF PicturesInv, Typed, ProposalsTypeOK
  <2> QED  BY <1>3, <2>1, <2>2, <2>4, <2>5, Kinds, RowsKeep DEF EditProposal, Exists
<1> QED  BY <1>1, <1>2, <1>3

LEMMA StepKeeps ==
    ASSUME PicturesInv, [ProposalsNext]_proposalVars
    PROVE  PicturesInv'
<1>1. CASE UNCHANGED proposalVars
  BY <1>1 DEF proposalVars, PicturesInv, Typed, ProposalsTypeOK, InOrder, InStep,
              Settled, Works, Exists
<1>2. ASSUME NEW r \in Request, NEW p \in Proposal,
             BeginDeleteProposal(r, p) \/ \E x \in Picture : BeginUpload(r, p, x)
      PROVE  PicturesInv'
  BY <1>2, BeginKeeps DEF BeginDeleteProposal, BeginUpload
<1>3. ASSUME NEW r \in Request,
             \/ RemoveOldPicture(r) \/ SavePicture(r) \/ SetImageFile(r)
             \/ DeleteRow(r) \/ RemovePicture(r) \/ DropErrand(r)
      PROVE  PicturesInv'
  BY <1>3, RemoveOldKeeps, SaveKeeps, SetImageKeeps, DeleteRowKeeps,
     RemovePictureKeeps, DropKeeps
<1> QED  BY <1>1, <1>2, <1>3, TableKeeps DEF ProposalsNext

LEMMA InvImplies == PicturesInv => PicturesMatchRows
<1> SUFFICES ASSUME PicturesInv PROVE PicturesMatchRows
  OBVIOUS
<1>1. \A p \in Proposal \ shaky : ~ Busy(p) => Settled(p)
  BY DEF PicturesInv, InOrder, Busy, Works
<1>2. ASSUME NEW entry \in GeneratePDF
      PROVE  \/ entry.proposal \in shaky \/ Busy(entry.proposal)
             \/ entry.picture \in files[entry.proposal] \cup {NoPicture}
  <2>1. PICK p \in Proposal : entry = [proposal |-> p, picture |-> proposal[p].image]
    BY <1>2 DEF GeneratePDF, FindUnfulfilled
  <2> QED  BY <1>1, <2>1 DEF Settled
<1> QED  BY <1>1, <1>2 DEF PicturesMatchRows, Settled

\* Whatever is proposed, edited, fulfilled, deleted or given a picture, by however
\* many requests at once, a proposal whose uploads and deletions ran to their end
\* one after the other has the file that its row names and no other; and none of
\* the pictures it has on the list of goods to order is missing.
THEOREM PicturesAgree == ProposalsSpec => []PicturesMatchRows
<1>1. ProposalsInit => PicturesInv
  BY InitIsInOrder
<1>2. PicturesInv /\ [ProposalsNext]_proposalVars => PicturesInv'
  BY StepKeeps
<1> QED  BY <1>1, <1>2, InvImplies, PTL DEF ProposalsSpec

\* Rows, files, errands and marks keep their types.
THEOREM ProposalsAreTyped == ProposalsSpec => []ProposalsTypeOK
<1>1. ProposalsInit => PicturesInv
  BY InitIsInOrder
<1>2. PicturesInv /\ [ProposalsNext]_proposalVars => PicturesInv'
  BY StepKeeps
<1>3. PicturesInv => ProposalsTypeOK
  BY DEF PicturesInv, Typed
<1> QED  BY <1>1, <1>2, <1>3, PTL DEF ProposalsSpec

-----------------------------------------------------------------------------
(* Lists.  A link leads from a product that is there to a category that is; *)
(* a product that is not yet there has no images that anybody asked for.    *)

\* The rows have the fields they are written with.
IsProductRow(x) ==
    x = [state |-> x.state, born |-> x.born, brand |-> x.brand, images |-> x.images]

IsWantedRow(x) == x = [images |-> x.images, categories |-> x.categories]

IsEdit(x) ==
    /\ x.stage = "relinking" =>
          /\ x.product \in Item /\ x.new \in SUBSET Category
          /\ x = [stage |-> x.stage, product |-> x.product, brand |-> x.brand,
                  new |-> x.new, seen |-> x.seen]
    /\ x.stage = "listing" => x.product \in Item

CatalogRows ==
    /\ product = [p \in Item |-> product[p]]
    /\ wanted = [p \in Item |-> wanted[p]]
    /\ category = [k \in Category |-> category[k]]
    /\ editor = [r \in Request |-> editor[r]]
    /\ \A p \in Item : IsProductRow(product[p]) /\ IsWantedRow(wanted[p])
    /\ \A r \in Request : IsEdit(editor[r])

LinksLead ==
    /\ link \subseteq Item \X Category
    /\ \A pk \in link : HasItem(pk[1]) /\ HasCategory(pk[2])

NewAreBare == \A p \in Item : product[p].state = "none" => wanted[p].images = {}

\* What a product's lists are, unless they were crossed.
ListsKept(p) ==
    HasItem(p) =>
        /\ <<"images", p>> \in crossed \/ product[p].images = wanted[p].images
        /\ <<"categories", p>> \in crossed \/ CategoriesOf(p) = wanted[p].categories

CatalogInv ==
    CatalogRows /\ LinksLead /\ NewAreBare /\ \A p \in Item : ListsKept(p)

-----------------------------------------------------------------------------

LEMMA CatalogBegin == CatalogInit => CatalogInv
<1> SUFFICES ASSUME CatalogInit PROVE CatalogInv
  OBVIOUS
<1>1. NoItem.state = "none" /\ IsProductRow(NoItem)
  BY DEF NoItem, IsProductRow
<1>2. IsWantedRow([images |-> {}, categories |-> {}]) /\ IsEdit(Idle)
  BY DEF IsWantedRow, IsEdit, Idle
<1>3. \A p \in Item : product[p] = NoItem /\ wanted[p] = [images |-> {}, categories |-> {}]
  BY DEF CatalogInit
<1>4. CatalogRows
  BY <1>1, <1>2, <1>3 DEF CatalogInit, CatalogRows
<1>5. LinksLead
  BY DEF CatalogInit, LinksLead
<1>6. NewAreBare
  BY <1>3 DEF NewAreBare
<1>7. \A p \in Item : ListsKept(p)
  BY <1>1, <1>3 DEF ListsKept, HasItem
<1> QED  BY <1>4, <1>5, <1>6, <1>7 DEF CatalogInv

\* A request's slot, when nothing else is written.
LEMMA EditKeeps ==
    ASSUME CatalogRows, NEW r \in Request, NEW x, IsEdit(x), editor' = [editor EXCEPT ![r] = x]
    PROVE  /\ editor' = [q \in Request |-> editor'[q]]
           /\ \A q \in Request : IsEdit(editor'[q])
<1>1. \A q \in Request : editor'[q] = IF q = r THEN x ELSE editor[q]
  BY DEF CatalogRows
<1> QED  BY <1>1 DEF CatalogRows

LEMMA IdleIsEdit == IsEdit(Idle)
BY DEF IsEdit, Idle

LEMMA SlotOnly ==
    ASSUME CatalogInv, NEW r \in Request, NEW x, IsEdit(x), editor' = [editor EXCEPT ![r] = x],
           UNCHANGED <<category, product, link, wanted, crossed>>
    PROVE  CatalogInv'
<1>1. CatalogRows'
  BY EditKeeps DEF CatalogInv, CatalogRows
<1> QED  BY <1>1 DEF CatalogInv, LinksLead, NewAreBare, ListsKept, HasItem, HasCategory,
                     CategoriesOf

\* A category comes or gets another parent.
LEMMA CategoryKeeps ==
    ASSUME CatalogInv, NEW k \in Category, NEW parent,
           CreateCategory(k, parent) \/ UpdateCategory(k, parent)
    PROVE  CatalogInv'
<1>1. /\ category' = [j \in Category |-> category'[j]]
      /\ \A j \in Category : HasCategory(j) => category'[j].state = "there"
  <2>1. CASE CreateCategory(k, parent)
    BY <2>1 DEF CreateCategory, CatalogInv, CatalogRows, HasCategory
  <2>2. CASE UpdateCategory(k, parent)
    <3>1. category' = [category EXCEPT ![k].parent = parent]
      BY <2>2 DEF UpdateCategory
    <3>2. \A j \in Category : category'[j] = IF j = k THEN [category[k] EXCEPT !.parent = parent]
                                             ELSE category[j]
      BY <3>1 DEF CatalogInv, CatalogRows
    <3>3. [category[k] EXCEPT !.parent = parent].state = category[k].state
      OBVIOUS
    <3>4. category' = [j \in Category |-> category'[j]]
      BY <3>1 DEF CatalogInv, CatalogRows
    <3> QED  BY <3>2, <3>3, <3>4 DEF HasCategory
  <2> QED  BY <2>1, <2>2
<1>2. UNCHANGED <<product, link, editor, wanted, crossed>>
  BY DEF CreateCategory, UpdateCategory
<1>3. CatalogRows'
  BY <1>1, <1>2 DEF CatalogInv, CatalogRows
<1>4. LinksLead'
  BY <1>1, <1>2 DEF CatalogInv, LinksLead, HasItem, HasCategory
<1>5. NewAreBare' /\ \A p \in Item : ListsKept(p)'
  BY <1>2 DEF CatalogInv, NewAreBare, ListsKept, HasItem, CategoriesOf
<1> QED  BY <1>3, <1>4, <1>5 DEF CatalogInv

LEMMA DeleteCategoryKeeps ==
    ASSUME CatalogInv, NEW k \in Category, DeleteCategory(k)
    PROVE  CatalogInv'
<1> USE DEF CatalogInv
<1>1. /\ category' = [category EXCEPT ![k] = [state |-> "gone", parent |-> NoId]]
      /\ link' = { pk \in link : pk[2] # k }
      /\ wanted' = [p \in Item |-> [wanted[p] EXCEPT !.categories = @ \ {k}]]
      /\ UNCHANGED <<product, editor, crossed>>
  BY DEF DeleteCategory
<1>2. \A p \in Item : /\ wanted'[p].images = wanted[p].images
                      /\ wanted'[p].categories = wanted[p].categories \ {k}
                      /\ IsWantedRow(wanted'[p])
  <2> SUFFICES ASSUME NEW p \in Item
               PROVE  /\ wanted'[p].images = wanted[p].images
                      /\ wanted'[p].categories = wanted[p].categories \ {k}
                      /\ IsWantedRow(wanted'[p])
    OBVIOUS
  <2>1. wanted[p] = [images |-> wanted[p].images, categories |-> wanted[p].categories]
    BY DEF CatalogRows, IsWantedRow
  <2>2. wanted'[p] = [wanted[p] EXCEPT !.categories = @ \ {k}]
    BY <1>1
  <2>3. wanted'[p] = [images |-> wanted[p].images, categories |-> wanted[p].categories \ {k}]
    BY <2>1, <2>2
  <2> QED  BY <2>3 DEF IsWantedRow
<1>3. \A j \in Category : j # k => category'[j] = category[j]
  BY <1>1 DEF CatalogRows
<1>4. CatalogRows'
  <2>1. category' = [j \in Category |-> category'[j]] /\ wanted' = [p \in Item |-> wanted'[p]]
    BY <1>1 DEF CatalogRows
  <2> QED  BY <1>1, <1>2, <2>1 DEF CatalogRows
<1>5. LinksLead'
  BY <1>1, <1>3 DEF LinksLead, HasItem, HasCategory
<1>6. NewAreBare'
  BY <1>1, <1>2 DEF NewAreBare
<1>7. ASSUME NEW p \in Item
      PROVE  ListsKept(p)'
  <2>1. CategoriesOf(p)' = CategoriesOf(p) \ {k}
    BY <1>1 DEF CategoriesOf
  <2> QED  BY <1>1, <1>2, <2>1 DEF ListsKept, HasItem
<1> QED  BY <1>4, <1>5, <1>6, <1>7

\* A product's fields but not its state or lists.
LEMMA FieldsKeep ==
    ASSUME CatalogInv, NEW p \in Item, NEW b,
           product' = [product EXCEPT ![p].brand = b] \/ product' = product
    PROVE  /\ product' = [q \in Item |-> product'[q]]
           /\ \A q \in Item : /\ IsProductRow(product'[q])
                              /\ product'[q].state = product[q].state
                              /\ product'[q].images = product[q].images
<1> USE DEF CatalogInv
<1>1. CASE product' = product
  BY <1>1 DEF CatalogRows
<1>2. CASE product' = [product EXCEPT ![p].brand = b]
  <2>1. product' = [q \in Item |-> product'[q]]
    BY <1>2 DEF CatalogRows
  <2>2. \A q \in Item : product'[q] = IF q = p THEN [product[p] EXCEPT !.brand = b] ELSE product[q]
    BY <1>2 DEF CatalogRows
  <2>3. product[p] = [state |-> product[p].state, born |-> product[p].born,
                      brand |-> product[p].brand, images |-> product[p].images]
    BY DEF CatalogRows, IsProductRow
  <2> DEFINE row == [product[p] EXCEPT !.brand = b]
  <2>4. row = [state |-> product[p].state, born |-> product[p].born, brand |-> b,
               images |-> product[p].images]
    BY <2>3
  <2> HIDE DEF row
  <2>5. IsProductRow(row) /\ row.state = product[p].state /\ row.images = product[p].images
    BY <2>4 DEF IsProductRow
  <2>6. \A q \in Item : product'[q] = IF q = p THEN row ELSE product[q]
    BY <2>2 DEF row
  <2> QED  BY <2>1, <2>5, <2>6 DEF CatalogRows
<1> QED  BY <1>1, <1>2

LEMMA EditFieldsKeeps ==
    ASSUME CatalogInv, NEW p \in Item, NEW b, EditFields(p, b)
    PROVE  CatalogInv'
<1>1. /\ product' = [product EXCEPT ![p].brand = b]
      /\ UNCHANGED <<category, link, editor, wanted, crossed>>
  BY DEF EditFields
<1>2. /\ product' = [q \in Item |-> product'[q]]
      /\ \A q \in Item : /\ IsProductRow(product'[q])
                         /\ product'[q].state = product[q].state
                         /\ product'[q].images = product[q].images
  BY <1>1, FieldsKeep
<1>3. CatalogRows'
  BY <1>1, <1>2 DEF CatalogInv, CatalogRows
<1> QED  BY <1>1, <1>2, <1>3 DEF CatalogInv, LinksLead, NewAreBare, ListsKept, HasItem,
                                HasCategory, CategoriesOf

\* A product that comes was never there: nothing links it, and no image was asked for.
LEMMA CreateProductKeeps ==
    ASSUME CatalogInv, NEW p \in Item, NEW b, NEW K \in SUBSET Category, CreateProduct(p, b, K)
    PROVE  CatalogInv'
<1> USE DEF CatalogInv
<1> DEFINE row == [state |-> "there", born |-> Born + 1, brand |-> b, images |-> {}]
<1>1. /\ product[p] = NoItem
      /\ \A k \in K : HasCategory(k)
      /\ product' = [product EXCEPT ![p] = row]
      /\ link' = link \cup ({p} \X K)
      /\ wanted' = [wanted EXCEPT ![p].categories = K]
      /\ UNCHANGED <<category, editor, crossed>>
  BY DEF CreateProduct
<1>2. IsProductRow(row) /\ row.state = "there" /\ row.images = {}
  BY DEF IsProductRow
<1> HIDE DEF row
<1>3. /\ product' = [q \in Item |-> product'[q]]
      /\ product'[p] = row
      /\ \A q \in Item \ {p} : product'[q] = product[q]
  BY <1>1 DEF CatalogRows
<1>4. product[p].state = "none"
  BY <1>1 DEF NoItem
<1>5. wanted[p].images = {}
  BY <1>4 DEF NewAreBare
<1>6. /\ wanted' = [q \in Item |-> wanted'[q]]
      /\ wanted'[p] = [wanted[p] EXCEPT !.categories = K]
      /\ \A q \in Item \ {p} : wanted'[q] = wanted[q]
  BY <1>1 DEF CatalogRows
<1>7. wanted'[p] = [images |-> {}, categories |-> K]
  <2>1. wanted[p] = [images |-> wanted[p].images, categories |-> wanted[p].categories]
    BY DEF CatalogRows, IsWantedRow
  <2> QED  BY <2>1, <1>5, <1>6
<1>8. IsWantedRow(wanted'[p]) /\ wanted'[p].images = {} /\ wanted'[p].categories = K
  BY <1>7 DEF IsWantedRow
<1>9. CatalogRows'
  BY <1>1, <1>2, <1>3, <1>6, <1>8 DEF CatalogRows
<1>10. LinksLead'
  BY <1>1, <1>2, <1>3 DEF LinksLead, HasItem, HasCategory
<1>11. NewAreBare'
  BY <1>2, <1>3, <1>6, <1>8 DEF NewAreBare
<1>12. CategoriesOf(p)' = K
  <2>1. ~ \E k : <<p, k>> \in link
    BY <1>4 DEF LinksLead, HasItem
  <2> QED  BY <1>1, <2>1 DEF CategoriesOf
<1>13. ASSUME NEW q \in Item, q # p
       PROVE  ListsKept(q)'
  <2>1. CategoriesOf(q)' = CategoriesOf(q)
    BY <1>1, <1>13 DEF CategoriesOf
  <2> QED  BY <1>1, <1>3, <1>6, <1>13, <2>1 DEF ListsKept, HasItem
<1>14. ListsKept(p)'
  BY <1>2, <1>3, <1>8, <1>12 DEF ListsKept
<1> QED  BY <1>9, <1>10, <1>11, <1>13, <1>14

\* What a transaction saw is kept while it waits.
LEMMA BeginEditKeeps ==
    ASSUME CatalogInv, NEW r \in Request, NEW p \in Item, NEW K \in SUBSET Category,
           NEW b, NEW op, NEW x,
           BeginRelink(r, p, b, K) \/ BeginImage(r, op, p, x)
    PROVE  CatalogInv'
<1>1. CASE BeginRelink(r, p, b, K)
  <2> DEFINE task == [stage |-> "relinking", product |-> p, brand |-> b,
                      new |-> K, seen |-> CategoriesOf(p)]
  <2>1. IsEdit(task)
    BY DEF IsEdit
  <2>2. editor' = [editor EXCEPT ![r] = task]
        /\ UNCHANGED <<category, product, link, wanted, crossed>>
    BY <1>1 DEF BeginRelink
  <2> HIDE DEF task
  <2> QED  BY <2>1, <2>2, SlotOnly
<1>2. CASE BeginImage(r, op, p, x)
  <2> DEFINE task == [stage |-> "listing", op |-> op, product |-> p,
                      key |-> x, seen |-> product[p].images]
  <2>1. IsEdit(task)
    BY DEF IsEdit
  <2>2. editor' = [editor EXCEPT ![r] = task]
        /\ UNCHANGED <<category, product, link, wanted, crossed>>
    BY <1>2 DEF BeginImage
  <2> HIDE DEF task
  <2> QED  BY <2>1, <2>2, SlotOnly
<1> QED  BY <1>1, <1>2

LEMMA DropEditKeeps ==
    ASSUME CatalogInv, NEW r \in Request, DropEdit(r)
    PROVE  CatalogInv'
<1>1. editor' = [editor EXCEPT ![r] = Idle]
      /\ UNCHANGED <<category, product, link, wanted, crossed>>
  BY DEF DropEdit, Answered
<1> QED  BY <1>1, IdleIsEdit, SlotOnly

\* A request that finds fewer rows than it saw is the same request.
LEMMA OvertakenKeeps ==
    ASSUME CatalogRows, NEW p, NEW gone
    PROVE  \A q \in Request : IsEdit(Overtaken(p, gone)[q])
<1> SUFFICES ASSUME NEW q \in Request PROVE IsEdit(Overtaken(p, gone)[q])
  OBVIOUS
<1>1. IsEdit(editor[q])
  BY DEF CatalogRows
<1>2. CASE editor[q].stage = "relinking" /\ editor[q].product = p
  <2> DEFINE task == editor[q]
             less == [task EXCEPT !.seen = @ \ gone]
  <2>1. task = [stage |-> task.stage, product |-> task.product, brand |-> task.brand,
                new |-> task.new, seen |-> task.seen]
    BY <1>1, <1>2 DEF IsEdit
  <2>2. less = [stage |-> task.stage, product |-> task.product, brand |-> task.brand,
                new |-> task.new, seen |-> task.seen \ gone]
    BY <2>1
  <2>3. Overtaken(p, gone)[q] = less
    BY <1>2 DEF Overtaken
  <2> HIDE DEF less
  <2>4. IsEdit(less)
    BY <1>1, <1>2, <2>2 DEF IsEdit
  <2> QED  BY <2>3, <2>4
<1>3. CASE ~ (editor[q].stage = "relinking" /\ editor[q].product = p)
  BY <1>1, <1>3 DEF Overtaken
<1> QED  BY <1>2, <1>3

\* The replacement leaves the new links and those that another request made
\* meanwhile: if there are none of these, just the new ones.
LEMMA RelinkKeeps ==
    ASSUME CatalogInv, NEW r \in Request, Relink(r)
    PROVE  CatalogInv'
<1> USE DEF CatalogInv
<1>0. PICK p \in Item, K \in SUBSET Category : p = editor[r].product /\ K = editor[r].new
  BY DEF Relink, CatalogRows, IsEdit
<1> DEFINE others == CategoriesOf(p) \ editor[r].seen
<1>1. /\ editor[r].stage = "relinking"
      /\ HasItem(p)
      /\ \A k \in K : HasCategory(k)
      /\ link' = (link \ ({p} \X editor[r].seen)) \cup ({p} \X K)
      /\ \/ product' = product
         \/ product' = [product EXCEPT ![p].brand = editor[r].brand]
      /\ wanted' = [wanted EXCEPT ![p].categories = K]
      /\ crossed' = IF others = {} THEN crossed \ {<<"categories", p>>}
                    ELSE crossed \cup {<<"categories", p>>}
      /\ editor' = [Overtaken(p, editor[r].seen) EXCEPT ![r] = Idle]
      /\ UNCHANGED category
  BY <1>0 DEF Relink, ReplaceCategories, Answered
<1>3. /\ product' = [q \in Item |-> product'[q]]
      /\ \A q \in Item : /\ IsProductRow(product'[q])
                         /\ product'[q].state = product[q].state
                         /\ product'[q].images = product[q].images
  <2> HIDE DEF CatalogInv
  <2> QED  BY <1>1, FieldsKeep
<1>4. /\ editor' = [q \in Request |-> editor'[q]]
      /\ \A q \in Request : IsEdit(editor'[q])
  <2> DEFINE rest == Overtaken(p, editor[r].seen)
  <2>1. /\ rest = [q \in Request |-> rest[q]]
        /\ \A q \in Request : IsEdit(rest[q])
    BY OvertakenKeeps DEF Overtaken
  <2>2. editor' = [rest EXCEPT ![r] = Idle]
    BY <1>1
  <2> HIDE DEF rest
  <2>3. editor' = [q \in Request |-> IF q = r THEN Idle ELSE rest[q]]
    BY <2>1, <2>2
  <2> QED  BY <2>1, <2>3, IdleIsEdit
<1>5. /\ wanted' = [q \in Item |-> wanted'[q]]
      /\ wanted'[p] = [wanted[p] EXCEPT !.categories = K]
      /\ \A q \in Item \ {p} : wanted'[q] = wanted[q]
  BY <1>1 DEF CatalogRows
<1>6. wanted'[p] = [images |-> wanted[p].images, categories |-> K]
  <2>1. wanted[p] = [images |-> wanted[p].images, categories |-> wanted[p].categories]
    BY DEF CatalogRows, IsWantedRow
  <2> QED  BY <2>1, <1>5
<1>7. IsWantedRow(wanted'[p]) /\ wanted'[p].images = wanted[p].images
      /\ wanted'[p].categories = K
  BY <1>6 DEF IsWantedRow
<1>8. CatalogRows'
  BY <1>1, <1>3, <1>4, <1>5, <1>7 DEF CatalogRows
<1>9. LinksLead'
  BY <1>1, <1>3 DEF LinksLead, HasItem, HasCategory
<1>10. NewAreBare'
  BY <1>3, <1>5, <1>7 DEF NewAreBare
<1>11. CategoriesOf(p)' = K \cup others
  BY <1>1 DEF CategoriesOf
<1>12. ListsKept(p)'
  <2> DEFINE images == <<"images", p>>
             categories == <<"categories", p>>
  <2>1. images # categories
    OBVIOUS
  <2>2. images \in crossed' <=> images \in crossed
    BY <1>1, <2>1
  <2>3. categories \in crossed' \/ CategoriesOf(p)' = wanted'[p].categories
    BY <1>1, <1>7, <1>11
  <2>4. images \in crossed \/ product[p].images = wanted[p].images
    BY <1>1 DEF ListsKept
  <2> QED  BY <1>3, <1>7, <2>2, <2>3, <2>4 DEF ListsKept
<1>13. ASSUME NEW q \in Item, q # p
       PROVE  ListsKept(q)'
  <2>1. CategoriesOf(q)' = CategoriesOf(q)
    BY <1>1, <1>13 DEF CategoriesOf
  <2>2. /\ <<"images", q>> \in crossed' <=> <<"images", q>> \in crossed
        /\ <<"categories", q>> \in crossed' <=> <<"categories", q>> \in crossed
    BY <1>1, <1>13
  <2> QED  BY <1>3, <1>5, <1>13, <2>1, <2>2 DEF ListsKept, HasItem
<1> QED  BY <1>8, <1>9, <1>10, <1>12, <1>13

LEMMA DeleteProductKeeps ==
    ASSUME CatalogInv, NEW p \in Item, DeleteProduct(p)
    PROVE  CatalogInv'
<1> USE DEF CatalogInv
<1> DEFINE row == [NoItem EXCEPT !.state = "gone"]
<1>1. /\ product' = [product EXCEPT ![p] = row]
      /\ link' = { pk \in link : pk[1] # p }
      /\ UNCHANGED <<category, editor, wanted, crossed>>
  BY DEF DeleteProduct
<1>2. IsProductRow(row) /\ row.state = "gone"
  BY DEF IsProductRow, NoItem
<1> HIDE DEF row
<1>3. /\ product' = [q \in Item |-> product'[q]]
      /\ product'[p] = row
      /\ \A q \in Item \ {p} : product'[q] = product[q]
  BY <1>1 DEF CatalogRows
<1>4. CatalogRows'
  BY <1>1, <1>2, <1>3 DEF CatalogRows
<1>5. LinksLead'
  BY <1>1, <1>3 DEF LinksLead, HasItem, HasCategory
<1>6. NewAreBare'
  BY <1>1, <1>2, <1>3 DEF NewAreBare
<1>7. ASSUME NEW q \in Item, q # p
      PROVE  ListsKept(q)'
  <2>1. CategoriesOf(q)' = CategoriesOf(q)
    BY <1>1, <1>7 DEF CategoriesOf
  <2> QED  BY <1>1, <1>3, <1>7, <2>1 DEF ListsKept, HasItem
<1>8. ListsKept(p)'
  BY <1>2, <1>3 DEF ListsKept, HasItem
<1> QED  BY <1>4, <1>5, <1>6, <1>7, <1>8

\* The column is written as it was read: what was asked for, unless it changed since.
LEMMA WriteImagesKeeps ==
    ASSUME CatalogInv, NEW r \in Request, WriteImages(r)
    PROVE  CatalogInv'
<1> USE DEF CatalogInv
<1>2. PICK p \in Item : p = editor[r].product
  BY DEF WriteImages, CatalogRows, IsEdit
<1> DEFINE op == editor[r].op
           x == editor[r].key
           images == With(op, editor[r].seen, x)
           asked == With(op, wanted[p].images, x)
<1>1. /\ editor[r].stage = "listing"
      /\ HasItem(p)
      /\ product' = [product EXCEPT ![p].images = images]
      /\ wanted' = [wanted EXCEPT ![p].images = With(op, @, x)]
      /\ crossed' = IF product[p].images = editor[r].seen THEN crossed
                    ELSE crossed \cup {<<"images", p>>}
      /\ editor' = [editor EXCEPT ![r] = Idle]
      /\ UNCHANGED <<category, link>>
  BY <1>2 DEF WriteImages, Answered
<1>3. /\ editor' = [q \in Request |-> editor'[q]]
      /\ \A q \in Request : IsEdit(editor'[q])
  BY <1>1, IdleIsEdit, EditKeeps
<1>4. wanted' = [wanted EXCEPT ![p].images = asked]
  BY <1>1
<1>5. product[p].images = editor[r].seen /\ product[p].images = wanted[p].images
      => images = asked
  OBVIOUS
<1> HIDE DEF images, asked
<1>6. /\ product' = [q \in Item |-> product'[q]]
      /\ product'[p] = [product[p] EXCEPT !.images = images]
      /\ \A q \in Item \ {p} : product'[q] = product[q]
  BY <1>1, <1>2 DEF CatalogRows
<1>7. product'[p] = [state |-> product[p].state, born |-> product[p].born,
                     brand |-> product[p].brand, images |-> images]
  <2>1. product[p] = [state |-> product[p].state, born |-> product[p].born,
                      brand |-> product[p].brand, images |-> product[p].images]
    BY <1>2 DEF CatalogRows, IsProductRow
  <2> QED  BY <2>1, <1>6
<1>8. /\ IsProductRow(product'[p])
      /\ product'[p].state = product[p].state /\ product'[p].images = images
  BY <1>7 DEF IsProductRow
<1>9. /\ wanted' = [q \in Item |-> wanted'[q]]
      /\ wanted'[p] = [wanted[p] EXCEPT !.images = asked]
      /\ \A q \in Item \ {p} : wanted'[q] = wanted[q]
  BY <1>2, <1>4 DEF CatalogRows
<1>10. wanted'[p] = [images |-> asked, categories |-> wanted[p].categories]
  <2>1. wanted[p] = [images |-> wanted[p].images, categories |-> wanted[p].categories]
    BY <1>2 DEF CatalogRows, IsWantedRow
  <2> QED  BY <2>1, <1>9
<1>11. IsWantedRow(wanted'[p]) /\ wanted'[p].images = asked
       /\ wanted'[p].categories = wanted[p].categories
  BY <1>10 DEF IsWantedRow
<1>12. CatalogRows'
  BY <1>1, <1>2, <1>3, <1>6, <1>8, <1>9, <1>11 DEF CatalogRows
<1>13. LinksLead'
  BY <1>1, <1>2, <1>6, <1>8 DEF LinksLead, HasItem, HasCategory
<1>14. NewAreBare'
  BY <1>1, <1>2, <1>6, <1>8, <1>9, <1>11 DEF NewAreBare, HasItem
<1>15. \A q \in Item : /\ CategoriesOf(q)' = CategoriesOf(q)
                       /\ <<"categories", q>> \in crossed' <=> <<"categories", q>> \in crossed
  BY <1>1 DEF CategoriesOf
<1>16. ListsKept(p)'
  <2>1. \/ <<"images", p>> \in crossed'
        \/ product[p].images = editor[r].seen /\ product[p].images = wanted[p].images
    BY <1>1, <1>2 DEF ListsKept
  <2> QED  BY <1>1, <1>2, <1>5, <1>8, <1>11, <1>15, <2>1 DEF ListsKept
<1>17. ASSUME NEW q \in Item, q # p
       PROVE  ListsKept(q)'
  <2>1. <<"images", q>> \in crossed' <=> <<"images", q>> \in crossed
    BY <1>1, <1>17
  <2> QED  BY <1>6, <1>9, <1>15, <1>17, <2>1 DEF ListsKept, HasItem
<1> QED  BY <1>12, <1>13, <1>14, <1>16, <1>17

\* What is neither a list nor a request's.
LEMMA OthersKeep ==
    ASSUME CatalogInv, UNCHANGED <<category, product, link, editor, wanted, crossed>>
    PROVE  CatalogInv'
BY DEF CatalogInv, CatalogRows, LinksLead, NewAreBare, ListsKept, HasItem, HasCategory,
       CategoriesOf

LEMMA CatalogKeeps == CatalogInv /\ [CatalogNext]_catalogVars => CatalogInv'
<1> SUFFICES ASSUME CatalogInv, [CatalogNext]_catalogVars PROVE CatalogInv'
  OBVIOUS
<1>1. CASE UNCHANGED catalogVars
  BY <1>1, OthersKeep DEF catalogVars
<1>2. ASSUME NEW k \in Category, DeleteCategory(k)
      PROVE  CatalogInv'
  BY <1>2, DeleteCategoryKeeps
<1>3. ASSUME NEW k \in Category, NEW parent \in Category \cup {NoId},
             CreateCategory(k, parent) \/ UpdateCategory(k, parent)
      PROVE  CatalogInv'
  BY <1>3, CategoryKeeps
<1>4. ASSUME NEW b \in Brand, CreateBrand(b) \/ DeleteBrand(b)
      PROVE  CatalogInv'
  BY <1>4, OthersKeep DEF CreateBrand, DeleteBrand
<1>5. ASSUME NEW p \in Item, NEW b \in Brand \cup {NoId}, EditFields(p, b)
      PROVE  CatalogInv'
  BY <1>5, EditFieldsKeeps
<1>6. ASSUME NEW p \in Item, NEW b \in Brand \cup {NoId}, NEW K \in SUBSET Category,
             CreateProduct(p, b, K)
      PROVE  CatalogInv'
  BY <1>6, CreateProductKeeps
<1>7. ASSUME NEW p \in Item, NEW b \in Brand \cup {NoId}, NEW K \in SUBSET Category,
             NEW r \in Request, BeginRelink(r, p, b, K)
      PROVE  CatalogInv'
  BY <1>7, BeginEditKeeps
<1>8. ASSUME NEW p \in Item, DeleteProduct(p)
      PROVE  CatalogInv'
  BY <1>8, DeleteProductKeeps
<1>9. ASSUME NEW p \in Item, NEW place \in Place, NEW price \in Price, NEW n \in Amount,
             Restock(p, place, price, n)
      PROVE  CatalogInv'
  BY <1>9, OthersKeep DEF Restock
<1>10. ASSUME NEW r \in Request, NEW op \in {"add", "remove"}, NEW p \in Item, NEW x \in Key,
              BeginImage(r, op, p, x)
       PROVE  CatalogInv'
  <2>1. {} \in SUBSET Category
    OBVIOUS
  <2> QED  BY <1>10, <2>1, BeginEditKeeps
<1>11. ASSUME NEW r \in Request, Relink(r) \/ WriteImages(r) \/ DropEdit(r)
       PROVE  CatalogInv'
  BY <1>11, RelinkKeeps, WriteImagesKeeps, DropEditKeeps
<1> QED
  BY <1>1, <1>2, <1>3, <1>4, <1>5, <1>6, <1>7, <1>8, <1>9, <1>10, <1>11 DEF CatalogNext

LEMMA CatalogInvImplies == CatalogInv => ProductListsAreKept
BY DEF CatalogInv, ProductListsAreKept, ListsKept, LinksLead

\* A product is in the categories and shows the images that were asked for, unless
\* two requests changed the same list at once, and no link leads nowhere
\* (replaceCategories, AddImage, RemoveImage and the foreign keys of
\* product_categories).
THEOREM ListsAreKept == CatalogSpec => []ProductListsAreKept
<1>1. CatalogInv /\ [CatalogNext]_catalogVars => CatalogInv'
  BY CatalogKeeps
<1> QED  BY <1>1, CatalogBegin, CatalogInvImplies, PTL DEF CatalogSpec

-----------------------------------------------------------------------------
(* Storefront.  What there is is finite, and what stands on a shelf has a    *)
(* price and a quantity.                                                     *)

There == { p \in Item : HasItem(p) }

IsOnShelf(x) == x = NoStock \/ (x # NoStock /\ x.price \in Nat /\ x.quantity \in Int)

ShelvesInv ==
    /\ CatalogInv
    /\ IsFiniteSet(There)
    /\ stock = [pl \in Item \X Place |-> stock[pl]]
    /\ \A pl \in Item \X Place : IsOnShelf(stock[pl])

LEMMA ShelvesBegin == CatalogInit => ShelvesInv
<1> SUFFICES ASSUME CatalogInit PROVE ShelvesInv
  OBVIOUS
<1>1. There = {}
  BY DEF CatalogInit, There, HasItem, NoItem
<1> QED  BY <1>1, CatalogBegin, FS_EmptySet DEF CatalogInit, ShelvesInv, IsOnShelf

\* Whatever a step does, at most one product more is there.
LEMMA OneMore ==
    ASSUME CatalogInv, [CatalogNext]_catalogVars
    PROVE  \E new \in Item \cup {NoId} : There' \subseteq There \cup {new}
<1>0. product = [p \in Item |-> product[p]]
  BY DEF CatalogInv, CatalogRows
<1>1. CASE product' = product
  BY <1>1 DEF There, HasItem
<1>2. ASSUME NEW p \in Item, NEW row, product' = [product EXCEPT ![p] = row]
      PROVE  There' \subseteq There \cup {p}
  BY <1>0, <1>2 DEF There, HasItem
<1>3. ASSUME NEW p \in Item, NEW b \in Brand \cup {NoId}, EditFields(p, b)
      PROVE  \E new \in Item \cup {NoId} : There' \subseteq There \cup {new}
  BY <1>2, <1>3 DEF EditFields
<1>4. ASSUME NEW p \in Item, NEW b \in Brand \cup {NoId}, NEW K \in SUBSET Category,
             CreateProduct(p, b, K)
      PROVE  \E new \in Item \cup {NoId} : There' \subseteq There \cup {new}
  BY <1>2, <1>4 DEF CreateProduct
<1>5. ASSUME NEW p \in Item, DeleteProduct(p)
      PROVE  \E new \in Item \cup {NoId} : There' \subseteq There \cup {new}
  BY <1>2, <1>5 DEF DeleteProduct
<1>6. ASSUME NEW r \in Request, Relink(r)
      PROVE  \E new \in Item \cup {NoId} : There' \subseteq There \cup {new}
  <2>1. editor[r].product \in Item
    BY <1>6 DEF Relink, CatalogInv, CatalogRows, IsEdit
  <2>2. CASE editor[r].brand = NoId
    BY <1>1, <1>6, <2>2 DEF Relink
  <2>3. CASE editor[r].brand # NoId
    BY <1>2, <1>6, <2>1, <2>3 DEF Relink
  <2> QED  BY <2>2, <2>3
<1>7. ASSUME NEW r \in Request, WriteImages(r)
      PROVE  \E new \in Item \cup {NoId} : There' \subseteq There \cup {new}
  <2>1. editor[r].product \in Item
    BY <1>7 DEF WriteImages, CatalogInv, CatalogRows, IsEdit
  <2> QED  BY <1>2, <1>7, <2>1 DEF WriteImages
<1>8. \/ product' = product
      \/ \E p \in Item, b \in Brand \cup {NoId} :
            EditFields(p, b) \/ \E K \in SUBSET Category : CreateProduct(p, b, K)
      \/ \E p \in Item : DeleteProduct(p)
      \/ \E r \in Request : Relink(r) \/ WriteImages(r)
  BY DEF CatalogNext, catalogVars, DeleteCategory, CreateCategory, UpdateCategory, CreateBrand,
         DeleteBrand, BeginRelink, BeginImage, DropEdit, Restock
<1> QED  BY <1>1, <1>3, <1>4, <1>5, <1>6, <1>7, <1>8

\* A shelf is as it was, or empty, or has what came in.
LEMMA ShelvesStep ==
    ASSUME CatalogAssumption, ShelvesInv, [CatalogNext]_catalogVars
    PROVE  /\ stock' = [pl \in Item \X Place |-> stock'[pl]]
           /\ \A pl \in Item \X Place : IsOnShelf(stock'[pl])
<1>0. stock = [pl \in Item \X Place |-> stock[pl]]
  BY DEF ShelvesInv
<1>1. CASE stock' = stock
  BY <1>1 DEF ShelvesInv
<1>2. ASSUME NEW p \in Item, DeleteProduct(p)
      PROVE  /\ stock' = [pl \in Item \X Place |-> stock'[pl]]
             /\ \A pl \in Item \X Place : IsOnShelf(stock'[pl])
  BY <1>0, <1>2 DEF DeleteProduct, ShelvesInv, IsOnShelf
<1>3. ASSUME NEW p \in Item, NEW place \in Place, NEW price \in Price, NEW n \in Amount,
             Restock(p, place, price, n)
      PROVE  /\ stock' = [pl \in Item \X Place |-> stock'[pl]]
             /\ \A pl \in Item \X Place : IsOnShelf(stock'[pl])
  <2> PICK row : row = [state |-> "there", price |-> price, quantity |-> n]
    OBVIOUS
  <2>1. IsOnShelf(row)
    <3>1. row.state = "there" /\ row.price = price /\ row.quantity = n
      OBVIOUS
    <3>2. price \in Nat /\ n \in Int
      BY DEF CatalogAssumption
    <3> QED  BY <3>1, <3>2 DEF IsOnShelf, NoStock
  <2>2. stock' = [stock EXCEPT ![<<p, place>>] = row]
    BY <1>3 DEF Restock
  <2> QED  BY <1>0, <2>1, <2>2 DEF ShelvesInv
<1>4. \/ stock' = stock
      \/ \E p \in Item : DeleteProduct(p)
      \/ \E p \in Item, place \in Place, price \in Price, n \in Amount :
            Restock(p, place, price, n)
  BY DEF CatalogNext, catalogVars, DeleteCategory, CreateCategory, UpdateCategory, CreateBrand,
         DeleteBrand, EditFields, CreateProduct, BeginRelink, BeginImage, DropEdit, Relink,
         WriteImages
<1> QED  BY <1>1, <1>2, <1>3, <1>4

LEMMA ShelvesKeep ==
    ASSUME CatalogAssumption, ShelvesInv, [CatalogNext]_catalogVars
    PROVE  ShelvesInv'
<1>1. CatalogInv'
  BY CatalogKeeps DEF ShelvesInv
<1>2. PICK new : There' \subseteq There \cup {new}
  BY OneMore DEF ShelvesInv
<1>3. IsFiniteSet(There \cup {new})
  BY FS_AddElement DEF ShelvesInv
<1>4. IsFiniteSet(There')
  BY <1>2, <1>3, FS_Subset
<1> QED  BY <1>1, <1>4, ShelvesStep DEF ShelvesInv, IsOnShelf

\* k is on page k \div c + 1 of c, and on no other.
LEMMA OnePage ==
    ASSUME NEW c \in Nat \ {0}, NEW k \in Nat
    PROVE  \E m \in Nat \ {0} : \A n \in Nat \ {0} : k \in ((n - 1) * c)..(n * c - 1) <=> n = m
<1>1. PICK d \in Nat : c * d <= k /\ k < c * d + c
  <2>1. k \div c \in Nat /\ c * (k \div c) <= k /\ k < c * (k \div c) + c
    OBVIOUS
  <2> QED  BY <2>1
<1>2. ASSUME NEW n \in Nat \ {0}, n <= d PROVE n * c <= c * d
  BY <1>2
<1>3. ASSUME NEW n \in Nat \ {0}, n >= d + 2 PROVE (n - 1) * c >= c * d + c
  BY <1>3
<1>4. ASSUME NEW n \in Nat \ {0} PROVE k \in ((n - 1) * c)..(n * c - 1) <=> n = d + 1
  <2>1. n * c \in Int /\ (n - 1) * c \in Int
    OBVIOUS
  <2>2. CASE n <= d
    BY <1>1, <1>2, <2>1, <2>2
  <2>3. CASE n >= d + 2
    BY <1>1, <1>3, <2>1, <2>3
  <2>4. CASE n = d + 1
    <3>1. n - 1 = d /\ d * c = c * d /\ (d + 1) * c = d * c + c
      BY <2>4
    <3> QED  BY <1>1, <2>1, <2>4, <3>1
  <2> QED  BY <2>2, <2>3, <2>4
<1>5. PICK m \in Nat \ {0} : m = d + 1
  OBVIOUS
<1>6. \A n \in Nat \ {0} : k \in ((n - 1) * c)..(n * c - 1) <=> n = m
  BY <1>4, <1>5
<1> QED  BY <1>6

\* There are pages enough for the last of them.
LEMMA PagesEnough ==
    ASSUME NEW c \in Nat \ {0}, NEW total \in Nat, NEW n \in Nat \ {0},
           (n - 1) * c < total
    PROVE  n <= (total + c - 1) \div c
<1>1. PICK q \in Int : q = (total + c - 1) \div c /\ total + c - 1 < c * q + c
  <2>1. total + c - 1 \in Nat
    OBVIOUS
  <2>2. \A x \in Nat : x \div c \in Int /\ x < c * (x \div c) + c
    OBVIOUS
  <2> QED  BY <2>1, <2>2
<1>2. (n - 1) * c \in Int /\ c * q \in Int
  OBVIOUS
<1>3. ASSUME q <= n - 1 PROVE c * q <= (n - 1) * c
  BY <1>3
<1> QED  BY <1>1, <1>2, <1>3

\* A product whose place in the list is certain has a place on it.
LEMMA PlaceInList ==
    ASSUME NEW M, IsFiniteSet(M), NEW sort, NEW p \in M,
           Cardinality(List(M, sort)[p]) = 1
    PROVE  \E k \in 0..(Cardinality(M) - 1) : List(M, sort)[p] = {k}
<1> PICK lo : lo = Cardinality({ q \in M : Before(sort, q, p) })
  OBVIOUS
<1> PICK hi : hi = Cardinality({ q \in M : ~ Before(sort, p, q) }) - 1
  OBVIOUS
<1>1. List(M, sort)[p] = lo..hi
  BY DEF List
<1>2. lo \in Nat /\ hi + 1 \in Nat /\ hi \in Int /\ hi + 1 <= Cardinality(M)
      /\ Cardinality(M) \in Nat
  <2>1. /\ { q \in M : Before(sort, q, p) } \subseteq M
        /\ { q \in M : ~ Before(sort, p, q) } \subseteq M
    OBVIOUS
  <2>2. \A S : S \subseteq M => Cardinality(S) \in Nat /\ Cardinality(S) <= Cardinality(M)
    BY FS_Subset, FS_CardinalityType
  <2>3. /\ Cardinality({ q \in M : Before(sort, q, p) }) \in Nat
        /\ Cardinality({ q \in M : ~ Before(sort, p, q) }) \in Nat
        /\ Cardinality({ q \in M : ~ Before(sort, p, q) }) <= Cardinality(M)
    BY <2>1, <2>2
  <2>4. Cardinality(M) \in Nat
    BY FS_CardinalityType
  <2> QED  BY <2>3, <2>4
<1>3. Cardinality(lo..hi) = IF lo > hi THEN 0 ELSE hi - lo + 1
  <2>1. lo \in Int /\ hi \in Int
    BY <1>2
  <2> QED  BY <2>1, FS_Interval
<1>4. lo = hi
  BY <1>1, <1>2, <1>3
<1>5. lo \in 0..(Cardinality(M) - 1) /\ lo..hi = {lo}
  <2>1. lo \in 0..(Cardinality(M) - 1)
    BY <1>2, <1>4
  <2>2. \A i \in Int : i..i = {i}
    OBVIOUS
  <2> QED  BY <1>2, <1>4, <2>1, <2>2
<1> QED  BY <1>1, <1>5

LEMMA PageSizes ==
    ASSUME StorefrontAssumption, NEW count \in Int
    PROVE  PageCount(count) \in Nat \ {0}
BY DEF StorefrontAssumption, PageCount

\* Every product with a certain place is on one page.
LEMMA OnOnePage ==
    ASSUME StorefrontAssumption, NEW M, IsFiniteSet(M), NEW sort, NEW count \in Int,
           NEW p \in M, Cardinality(List(M, sort)[p]) = 1
    PROVE  Cardinality({ n \in 1 .. ((Cardinality(M) + PageCount(count) - 1)
                                        \div PageCount(count)) :
                           p \in Page(List(M, sort), n, count) }) = 1
<1> PICK total : total = Cardinality(M)
  OBVIOUS
<1> PICK pages : pages = 1 .. ((total + PageCount(count) - 1) \div PageCount(count))
  OBVIOUS
<1> PICK c \in Nat \ {0} : c = PageCount(count)
  BY PageSizes
<1>0. total \in Nat
  BY FS_CardinalityType
<1>1. PICK k \in 0..(total - 1) : List(M, sort)[p] = {k}
  BY PlaceInList
<1>2. PICK m \in Nat \ {0} :
         \A n \in Nat \ {0} : k \in ((n - 1) * c)..(n * c - 1) <=> n = m
  <2>1. k \in Nat
    BY <1>0
  <2> QED  BY <2>1, OnePage
<1>3. ASSUME NEW n \in pages
      PROVE  n \in Nat \ {0} /\ (p \in Page(List(M, sort), n, count)
                                   <=> k \in ((n - 1) * c)..(n * c - 1))
  <2>1. n \in Nat \ {0}
    OBVIOUS
  <2>2. PageNumber(n) = n
    BY <2>1 DEF PageNumber
  <2>3. DOMAIN List(M, sort) = M
    BY DEF List
  <2> QED  BY <1>1, <2>1, <2>2, <2>3 DEF Page, Window
<1>4. m \in pages
  <2>1. (m - 1) * c <= k
    <3>1. k \in ((m - 1) * c)..(m * c - 1)
      BY <1>2
    <3>2. (m - 1) * c \in Int /\ m * c - 1 \in Int
      OBVIOUS
    <3> QED  BY <3>1, <3>2
  <2>2. (m - 1) * c < total
    <3>1. (m - 1) * c \in Int
      OBVIOUS
    <3> QED  BY <1>0, <2>1, <3>1
  <2>3. m <= (total + c - 1) \div c
    BY <1>0, <2>2, PagesEnough
  <2>4. (total + c - 1) \div c \in Int
    BY <1>0
  <2> QED  BY <2>3, <2>4
<1>5. { n \in pages : p \in Page(List(M, sort), n, count) } = {m}
  BY <1>2, <1>3, <1>4
<1> QED  BY <1>5, FS_Singleton

LEMMA PagesAreWhole ==
    ASSUME StorefrontAssumption, IsFiniteSet(There), NEW f, NEW sort, NEW count \in Int
    PROVE  PagesShow(List(Matches(f), sort), count)
<1> PICK M : M = Matches(f)
  OBVIOUS
<1>1. IsFiniteSet(M)
  <2>1. M \subseteq There
    BY DEF Matches, There
  <2> QED  BY <2>1, FS_Subset
<1>2. DOMAIN List(M, sort) = M
  BY DEF List
<1>3. ASSUME NEW n \in AskedPage, n <= 1 PROVE 0 \in Window(n, count)
  <2>1. PageNumber(n) = 1
    BY <1>3 DEF PageNumber, StorefrontAssumption
  <2>2. PageCount(count) \in Nat \ {0}
    BY PageSizes
  <2>3. \A c \in Nat \ {0} : 0 \in ((1 - 1) * c)..(1 * c - 1)
    OBVIOUS
  <2> QED  BY <2>1, <2>2, <2>3 DEF Window
<1>4. \A p \in M : Cardinality(List(M, sort)[p]) = 1 =>
          Cardinality({ n \in 1 .. ((Cardinality(M) + PageCount(count) - 1)
                                       \div PageCount(count)) :
                          p \in Page(List(M, sort), n, count) }) = 1
  BY <1>1, OnOnePage
<1> QED  BY <1>2, <1>3, <1>4 DEF PagesShow

LEMMA PagesAreTurned ==
    ASSUME StorefrontAssumption, IsFiniteSet(There)
    PROVE  PagesShowTheList
<1>1. \A f, sort : \A count \in AskedCount : PagesShow(List(Matches(f), sort), count)
  BY PagesAreWhole DEF StorefrontAssumption
<1> QED  BY <1>1, Zenon DEF PagesShowTheList

-----------------------------------------------------------------------------

\* What is listed as in stock is, and the back office finds it.
LEMMA StockIsListed ==
    ASSUME CatalogAssumption, ShelvesInv, NEW p \in Item, HasItem(p)
    PROVE  StockIsThere(p)
<1>s. SUFFICES
         ASSUME NEW l \in Place, NEW min \in Price \cup {0}, NEW max \in Price \cup {0},
                p \in Matches([AnyFilter EXCEPT !.place = l, !.min = min, !.max = max,
                                                 !.inStock = TRUE])
         PROVE  /\ \E a \in Availability(p) : a.place = l /\ a.inStock
                /\ stock[<<p, l>>].price >= min
                /\ max # 0 => stock[<<p, l>>].price <= max
                /\ p \in Query([AnyFilter EXCEPT !.place = l, !.min = min, !.max = max,
                                                  !.inStock = TRUE])
  BY Zenon DEF StockIsThere
<1>f. PICK f : f = [AnyFilter EXCEPT !.place = l, !.min = min, !.max = max, !.inStock = TRUE]
  OBVIOUS
<1>0. f.place = l /\ f.min = min /\ f.max = max /\ f.inStock = TRUE /\ p \in Matches(f)
  BY <1>s, <1>f DEF AnyFilter
<1>1. FitsStock(f, p)
  BY <1>0 DEF Matches, CatalogAssumption
<1>2. l \in RowsOf(p) /\ Fits(f, stock[<<p, l>>])
  BY <1>0, <1>1 DEF FitsStock, CatalogAssumption
<1>3. stock[<<p, l>>].price \in Nat /\ stock[<<p, l>>].quantity \in Int
  BY <1>2 DEF RowsOf, ShelvesInv, IsOnShelf
<1>4. \E a \in Availability(p) : a.place = l /\ a.inStock
  <2> DEFINE a == [place |-> l, quantity |-> stock[<<p, l>>].quantity \div 1000,
                   inStock |-> stock[<<p, l>>].quantity > 0]
  <2>1. a \in Availability(p)
    BY <1>2 DEF Availability
  <2>2. stock[<<p, l>>].quantity > 0
    BY <1>0, <1>2 DEF Fits
  <2>3. a.place = l /\ a.inStock
    BY <2>2
  <2> HIDE DEF a
  <2> QED  BY <2>1, <2>3
<1>5. stock[<<p, l>>].price >= min /\ (max # 0 => stock[<<p, l>>].price <= max)
  BY <1>0, <1>2, <1>3 DEF Fits, CatalogAssumption
<1>6. p \in Query(f)
  BY <1>0, <1>2, <1>5 DEF Query
<1> QED  BY <1>f, <1>4, <1>5, <1>6

LEMMA RelatedAreInLists ==
    ASSUME CatalogAssumption, NEW p \in Item
    PROVE  RelatedAreListed(p)
<1> SUFFICES ASSUME CategoriesOf(p) # {}, NEW q \in Related(p)
             PROVE  \E k \in CategoriesOf(p) : q \in Matches([AnyFilter EXCEPT !.category = k])
  BY DEF RelatedAreListed
<1>1. q \in Item /\ HasItem(q)
  BY DEF Related
<1>2. PICK k \in CategoriesOf(p) : k \in CategoriesOf(q)
  BY DEF Related
<1> PICK f : f = [AnyFilter EXCEPT !.category = k]
  OBVIOUS
<1>3. /\ f.category = k /\ f.brand = NoId /\ f.place = NoId /\ f.min = 0 /\ f.max = 0
      /\ f.inStock = FALSE
  BY DEF AnyFilter
<1>4. q \in Matches(f)
  BY <1>1, <1>2, <1>3 DEF Matches
<1> QED  BY <1>4

\* Whatever edits, incomes and deletions made of the catalogue, the pages of a list show
\* each of its products once, what it says of the stock is what the shelf and the back office say,
\* and related products are in the lists of their categories (List, applyFilters,
\* GetRelated, GetAvailability; Query of the back office).
THEOREM ListsKeepPromise == CatalogSpec => []ListsKeepTheirPromise
<1>1. ShelvesInv /\ [CatalogNext]_catalogVars => ShelvesInv'
  BY ShelvesKeep, CatalogAssumption
<1>2. ShelvesInv => ListsKeepTheirPromise
  <2> SUFFICES ASSUME ShelvesInv PROVE ListsKeepTheirPromise
    OBVIOUS
  <2>1. PagesShowTheList
    BY PagesAreTurned, StorefrontAssumption DEF ShelvesInv
  <2> QED  BY <2>1, StockIsListed, RelatedAreInLists, CatalogAssumption DEF ListsKeepTheirPromise
<1> QED  BY <1>1, <1>2, ShelvesBegin, PTL DEF CatalogSpec

-----------------------------------------------------------------------------
(* Access.  What a token says of its bearer, and what the guards that a      *)
(* request has passed say of the request.                                   *)

Somebody == Staff \cup Visitor

AccessRows ==
    /\ staff = [u \in Staff |-> staff[u]]
    /\ visit = [r \in Request |-> visit[r]]
    /\ signedIn = [x \in Somebody |-> signedIn[x]]
    /\ clock \in Nat
    /\ \A x \in Somebody : signedIn[x] \in Int /\ signedIn[x] <= clock

\* Whoever bears a token was given it; an access token, not before its life began.
IsIssued(t) ==
    /\ t.until \in Int
    /\ t.subject \in Somebody /\ signedIn[t.subject] >= 0
    /\ t.type = "access" => t.until - AccessLife <= signedIn[t.subject]

Met(v, guard) == \E i \in v.met : Registered[i].guard = guard

\* A seat is the account that has it, unless the account changed.
IsSeat(s, u) ==
    /\ s.role \in Capable
    /\ u \in Staff
    /\ u \notin altered => s = staff[u] /\ Employed(u)

\* What a request has from the guards that it met.
IsVisit(v) ==
    /\ v = [stage |-> "guarded", area |-> v.area, token |-> v.token, met |-> v.met,
            user |-> v.user, seat |-> v.seat]
    /\ v.area \in Area /\ IsIssued(v.token)
    /\ v.met \subseteq Guards[v.area]
    /\ v.user = IF Met(v, "staff") THEN {v.token.subject} ELSE {}
    /\ Met(v, "staff") => v.token.type = "access" /\ v.token.subject \in Staff
    /\ Met(v, "customer") => v.token.subject \in visitor
    /\ Met(v, "capability") =>
          \E s, u : v.seat = {s} /\ v.user = {u} /\ IsSeat(s, u)

AccessInv ==
    /\ AccessRows
    /\ \A t \in token : IsIssued(t)
    /\ \A r \in Request : visit[r] # Idle => IsVisit(visit[r])
    /\ activity.area \in {"admin", "proxy", "seller"} => activity.who # {}

-----------------------------------------------------------------------------

LEMMA RegistrationFields ==
    ASSUME NEW x, NEW guard
    PROVE  /\ Route(x, guard).kind = "route" /\ Mount(x, guard).kind = "mount"
           /\ Route(x, guard).of = x /\ Mount(x, guard).of = x
           /\ Route(x, guard).guard = guard /\ Mount(x, guard).guard = guard
BY DEF Route, Mount

\* Where the guards stand.
LEMMA GuardsStand ==
    /\ Guards["auth"] = {} /\ Guards["store_public"] = {}
    /\ 4 \in Guards["store"] /\ Registered[4].guard = "customer"
    /\ \A i \in Guards["store"] : Registered[i].guard # "staff"
    /\ 6 \in Guards["admin"] /\ 6 \in Guards["seller"] /\ Registered[6].guard = "staff"
    /\ 9 \in Guards["proxy"] /\ Registered[9].guard = "staff"
    /\ 10 \in Guards["seller"] /\ Registered[10].guard = "capability"
<1>1. /\ DOMAIN Registered = 1..10
      /\ Registered[1] = Route("auth", "none") /\ Registered[2] = Route("store_public", "none")
      /\ Registered[3] = Route("handoff", "session")
      /\ Registered[4] = Mount("api_v1_store", "customer")
      /\ Registered[5] = Route("store", "none")
      /\ Registered[6] = Mount("api", "staff") /\ Registered[7] = Route("admin", "none")
      /\ Registered[8] = Route("dashboard", "basic") /\ Registered[9] = Route("proxy", "staff")
      /\ Registered[10] = Route("seller", "capability")
  BY DEF Registered
<1> HIDE DEF Registered
<1>0. /\ \A i \in {1, 2, 3, 5, 7, 8, 9, 10} : Registered[i].kind = "route"
      /\ \A i \in {4, 6} : Registered[i].kind = "mount"
      /\ Registered[1].of = "auth" /\ Registered[2].of = "store_public"
      /\ Registered[3].of = "handoff" /\ Registered[4].of = "api_v1_store"
      /\ Registered[5].of = "store" /\ Registered[6].of = "api"
      /\ Registered[7].of = "admin" /\ Registered[8].of = "dashboard"
      /\ Registered[9].of = "proxy" /\ Registered[10].of = "seller"
  BY <1>1, RegistrationFields
<1>2. /\ Registered[1].guard = "none" /\ Registered[2].guard = "none"
      /\ Registered[3].guard = "session" /\ Registered[4].guard = "customer"
      /\ Registered[5].guard = "none" /\ Registered[6].guard = "staff"
      /\ Registered[7].guard = "none" /\ Registered[8].guard = "basic"
      /\ Registered[9].guard = "staff" /\ Registered[10].guard = "capability"
  BY <1>1, RegistrationFields
<1>3. /\ Above("auth") = {"api"} /\ Above("store_public") = {"api_v1_store", "api"}
      /\ Above("store") = {"api_v1_store", "api"} /\ Above("admin") = {"api"}
      /\ Above("seller") = {"api"} /\ Above("proxy") = {}
  BY DEF Above
<1>4. \A i \in 1..10 : \/ i = 1 \/ i = 2 \/ i = 3 \/ i = 4 \/ i = 5 \/ i = 6 \/ i = 7
                       \/ i = 8 \/ i = 9 \/ i = 10
  OBVIOUS
<1>5. \A i \in 1..10 :
         /\ IsRoute(i, "auth") => i = 1
         /\ IsRoute(i, "store_public") => i = 2
         /\ IsRoute(i, "store") <=> i = 5
         /\ IsRoute(i, "admin") <=> i = 7
         /\ IsRoute(i, "proxy") <=> i = 9
         /\ IsRoute(i, "seller") <=> i = 10
  BY <1>0, <1>4 DEF IsRoute
<1>6. \A i \in 1..10 : Registered[i].kind = "mount" =>
         \/ i = 4 /\ Registered[i].of = "api_v1_store"
         \/ i = 6 /\ Registered[i].of = "api"
  BY <1>0, <1>4
<1>7. ASSUME NEW area \in Area, NEW i \in Guards[area]
      PROVE  /\ i \in 1..10 /\ Registered[i].guard # "none"
             /\ \/ IsRoute(i, area)
                \/ /\ Registered[i].kind = "mount" /\ Registered[i].of \in Above(area)
                   /\ \E k \in 1..10 : i < k /\ IsRoute(k, area)
  BY <1>1, <1>7 DEF Guards
<1>8. ASSUME NEW area \in Area, NEW i \in 1..10, Registered[i].guard # "none",
             \/ IsRoute(i, area)
             \/ /\ Registered[i].kind = "mount" /\ Registered[i].of \in Above(area)
                /\ \E k \in 1..10 : i < k /\ IsRoute(k, area)
      PROVE  i \in Guards[area]
  BY <1>1, <1>8 DEF Guards
<1>9. /\ "auth" \in Area /\ "store_public" \in Area /\ "store" \in Area
      /\ "admin" \in Area /\ "proxy" \in Area /\ "seller" \in Area
  BY DEF Area
<1>10. ASSUME NEW i \in Guards["auth"] PROVE FALSE
  BY <1>2, <1>5, <1>6, <1>7, <1>9
<1>11. ASSUME NEW i \in Guards["store_public"] PROVE FALSE
  BY <1>2, <1>5, <1>6, <1>7, <1>9
<1>12. ASSUME NEW i \in Guards["store"] PROVE Registered[i].guard # "staff"
  BY <1>2, <1>5, <1>6, <1>7, <1>9
<1>13. 4 \in Guards["store"] /\ 6 \in Guards["admin"] /\ 6 \in Guards["seller"]
  <2>1. 4 \in 1..10 /\ 6 \in 1..10 /\ 5 \in 1..10 /\ 7 \in 1..10 /\ 10 \in 1..10
    OBVIOUS
  <2>2. IsRoute(5, "store") /\ IsRoute(7, "admin") /\ IsRoute(10, "seller")
    BY <1>5, <2>1
  <2>3. 4 \in Guards["store"]
    BY <1>0, <1>2, <1>3, <1>8, <1>9, <2>1, <2>2
  <2>4. 6 \in Guards["admin"]
    BY <1>0, <1>2, <1>3, <1>8, <1>9, <2>1, <2>2
  <2>5. 6 \in Guards["seller"]
    BY <1>0, <1>2, <1>3, <1>8, <1>9, <2>1, <2>2
  <2> QED  BY <2>3, <2>4, <2>5
<1>14. 9 \in Guards["proxy"] /\ 10 \in Guards["seller"]
  BY <1>2, <1>5, <1>8, <1>9
<1> QED  BY <1>2, <1>10, <1>11, <1>12, <1>13, <1>14

LEMMA AccessBegins == AccessInit => AccessInv
<1> SUFFICES ASSUME AccessInit PROVE AccessInv
  OBVIOUS
<1>1. AccessRows
  BY DEF AccessInit, AccessRows, Somebody, Never
<1> QED  BY <1>1 DEF AccessInit, AccessInv, Nothing

\* A token that was issued stays so, when sign-ins only become later.
LEMMA IssuedKept ==
    ASSUME AccessRows, NEW t, IsIssued(t), AccessAssumption,
           \A x \in Somebody : signedIn'[x] \in Int /\ signedIn'[x] >= signedIn[x]
    PROVE  t.until \in Int /\ t.subject \in Somebody /\ signedIn'[t.subject] >= 0
           /\ (t.type = "access" => t.until - AccessLife <= signedIn'[t.subject])
BY DEF AccessRows, IsIssued, AccessAssumption

\* A step that lets nobody go, and leaves the accounts that it does not name altered.
LEMMA VisitKept ==
    ASSUME AccessInv, NEW v, IsVisit(v), AccessAssumption,
           \A x \in Somebody : signedIn'[x] \in Int /\ signedIn'[x] >= signedIn[x],
           visitor \subseteq visitor', altered \subseteq altered',
           \A u \in Staff \ altered' : Employed(u) => staff'[u] = staff[u]
    PROVE  IsVisit(v)'
<1>1. IsIssued(v.token)'
  BY IssuedKept DEF AccessInv, IsVisit, IsIssued
<1>2. ASSUME NEW s, NEW u, IsSeat(s, u) PROVE IsSeat(s, u)'
  BY <1>2 DEF IsSeat, Employed
<1>3. Met(v, "capability") =>
          \E s, u : v.seat = {s} /\ v.user = {u} /\ IsSeat(s, u)'
  BY <1>2 DEF IsVisit
<1> QED  BY <1>1, <1>3 DEF IsVisit, Met

\* A request that the step leaves alone.
LEMMA SameVisitKept ==
    ASSUME AccessInv, NEW r \in Request, visit'[r] = visit[r], visit[r] # Idle,
           AccessAssumption,
           \A x \in Somebody : signedIn'[x] \in Int /\ signedIn'[x] >= signedIn[x],
           visitor \subseteq visitor', altered \subseteq altered',
           \A u \in Staff \ altered' : Employed(u) => staff'[u] = staff[u]
    PROVE  IsVisit(visit[r])'
<1>1. PICK v : v = visit[r]
  OBVIOUS
<1>2. IsVisit(v)'
  BY <1>1, VisitKept DEF AccessInv
<1> QED  BY <1>1, <1>2 DEF IsVisit

\* The facts of the two lemmas above, for the steps that change no account.
LEMMA QuietStep ==
    ASSUME AccessInv, UNCHANGED signedIn
    PROVE  \A x \in Somebody : signedIn'[x] \in Int /\ signedIn'[x] >= signedIn[x]
BY DEF AccessInv, AccessRows

\* Time passes.
LEMMA TickKeeps == ASSUME AccessInv, AccessAssumption, Tick PROVE AccessInv'
<1>1. \A x \in Somebody : signedIn'[x] \in Int /\ signedIn'[x] >= signedIn[x]
  BY QuietStep DEF Tick
<1>2. \A r \in Request : visit'[r] # Idle => IsVisit(visit[r])'
  BY <1>1, SameVisitKept DEF Tick
<1>3. \A t \in token' : IsIssued(t)'
  BY DEF Tick, AccessInv, IsIssued
<1>4. AccessRows'
  BY DEF Tick, AccessInv, AccessRows, AccessAssumption
<1> QED  BY <1>2, <1>3, <1>4 DEF AccessInv, Tick

\* Staff accounts come, change and go.
LEMMA StaffKeeps ==
    ASSUME AccessInv, AccessAssumption, NEW u \in Staff, NEW role, NEW desk,
           RegisterStaff(u, role, desk) \/ UpdateStaff(u, role, desk) \/ DeleteStaff(u)
    PROVE  AccessInv'
<1>0. UNCHANGED <<visitor, token, clock, visit, signedIn>>
  BY DEF RegisterStaff, UpdateStaff, DeleteStaff
<1>1. \A x \in Somebody : signedIn'[x] \in Int /\ signedIn'[x] >= signedIn[x]
  BY <1>0, QuietStep
<1>2. staff = [w \in Staff |-> staff[w]]
  BY DEF AccessInv, AccessRows
<1>3. /\ altered \subseteq altered'
      /\ \A w \in Staff \ altered' : Employed(w) => staff'[w] = staff[w]
  BY <1>2 DEF RegisterStaff, UpdateStaff, DeleteStaff, Employed, NoStaff
<1>4. \A r \in Request : visit'[r] # Idle => IsVisit(visit[r])'
  BY <1>0, <1>1, <1>3, SameVisitKept
<1>5. \A t \in token' : IsIssued(t)'
  BY <1>0 DEF AccessInv, IsIssued
<1>6. staff' = [w \in Staff |-> staff'[w]]
  BY <1>2 DEF RegisterStaff, UpdateStaff, DeleteStaff
<1>7. AccessRows'
  BY <1>0, <1>6 DEF AccessInv, AccessRows
<1>8. activity'.area \in {"admin", "proxy", "seller"} => activity'.who # {}
  BY DEF RegisterStaff, UpdateStaff, DeleteStaff, AccessInv, Nothing
<1> QED  BY <1>4, <1>5, <1>7, <1>8 DEF AccessInv

\* Tokens are given to those who sign in now.
LEMMA IssueKeeps ==
    ASSUME AccessInv, AccessAssumption, NEW x \in Somebody, NEW new, Issue(x, new),
           visitor \subseteq visitor',
           \A t \in new : /\ t.subject = x /\ t.until \in Int
                          /\ t.type = "access" => t.until = clock + AccessLife
    PROVE  AccessInv'
<1>1. \A y \in Somebody : /\ signedIn'[y] \in Int /\ signedIn'[y] >= signedIn[y]
                          /\ signedIn'[y] <= clock
  BY DEF Issue, AccessInv, AccessRows
<1>2. \A r \in Request : visit'[r] # Idle => IsVisit(visit[r])'
  BY <1>1, SameVisitKept DEF Issue
<1>3. \A t \in token : IsIssued(t)'
  BY <1>1, IssuedKept DEF AccessInv, IsIssued
<1>4. \A t \in new : IsIssued(t)'
  BY DEF Issue, AccessInv, AccessRows, IsIssued, AccessAssumption
<1>5. AccessRows'
  BY <1>1 DEF Issue, AccessInv, AccessRows
<1> QED  BY <1>2, <1>3, <1>4, <1>5 DEF AccessInv, Issue

LEMMA TokensKeep ==
    ASSUME AccessInv, AccessAssumption,
           \/ \E u \in Staff : LoginStaff(u)
           \/ \E t \in token : RefreshTokens(t)
           \/ \E c \in Visitor : JoinStore(c)
    PROVE  AccessInv'
<1>0. clock \in Nat
  BY DEF AccessInv, AccessRows
<1>1. ASSUME NEW u \in Staff
      PROVE  \A t \in Pair(u) : /\ t.subject = u /\ t.until \in Int
                                /\ t.type = "access" => t.until = clock + AccessLife
  BY <1>0 DEF Pair, Token, AccessAssumption
<1>2. ASSUME NEW c \in Visitor
      PROVE  \A t \in {Token("store", c, StoreLife)} :
                 /\ t.subject = c /\ t.until \in Int
                 /\ t.type = "access" => t.until = clock + AccessLife
  BY <1>0 DEF Token, AccessAssumption
<1>3. ASSUME NEW u \in Staff, LoginStaff(u) PROVE AccessInv'
  BY <1>1, <1>3, IssueKeeps DEF LoginStaff, Somebody
<1>4. ASSUME NEW t \in token, RefreshTokens(t) PROVE AccessInv'
  BY <1>1, <1>4, IssueKeeps DEF RefreshTokens, Somebody
<1>5. ASSUME NEW c \in Visitor, JoinStore(c) PROVE AccessInv'
  BY <1>2, <1>5, IssueKeeps DEF JoinStore, Somebody
<1> QED  BY <1>3, <1>4, <1>5

\* A step that changes the requests alone, and of them r.
LEMMA VisitStep ==
    ASSUME AccessInv, AccessAssumption, NEW r \in Request, NEW v,
           visit' = [visit EXCEPT ![r] = v], v # Idle => IsVisit(v),
           UNCHANGED <<staff, visitor, token, clock, signedIn, altered>>,
           activity'.area \in {"admin", "proxy", "seller"} => activity'.who # {}
    PROVE  AccessInv'
<1>1. \A x \in Somebody : signedIn'[x] \in Int /\ signedIn'[x] >= signedIn[x]
  BY QuietStep
<1>2. AccessRows'
  BY DEF AccessInv, AccessRows
<1>3. \A t \in token' : IsIssued(t)'
  BY DEF AccessInv, IsIssued
<1>4. ASSUME NEW q \in Request, visit'[q] # Idle PROVE IsVisit(visit[q])'
  <2>1. CASE q # r
    <3>1. visit'[q] = visit[q]
      BY <2>1 DEF AccessInv, AccessRows
    <3> QED  BY <1>1, <1>4, <3>1, SameVisitKept
  <2>2. CASE q = r
    <3>1. visit'[q] = v
      BY <2>2 DEF AccessInv, AccessRows
    <3>2. IsVisit(v)'
      BY <1>1, <1>4, <3>1, VisitKept
    <3> QED  BY <3>1, <3>2 DEF IsVisit
  <2> QED  BY <2>1, <2>2
<1> QED  BY <1>2, <1>3, <1>4 DEF AccessInv

\* A request arrives, is served, or is turned away.
LEMMA ComesAndGoes ==
    ASSUME AccessInv, AccessAssumption, NEW r \in Request,
           \/ \E area \in Area, t \in token : Arrive(r, area, t)
           \/ Answer(r)
           \/ TurnAway(r)
    PROVE  AccessInv'
<1>1. ASSUME NEW area \in Area, NEW t \in token, Arrive(r, area, t) PROVE AccessInv'
  <2> PICK v : v = [stage |-> "guarded", area |-> area, token |-> t, met |-> {},
                    user |-> {}, seat |-> {}]
    OBVIOUS
  <2>1. IsVisit(v)
    BY <1>1 DEF AccessInv, IsVisit, Met
  <2> QED  BY <1>1, <2>1, VisitStep DEF Arrive, AccessInv
<1>2. ASSUME Answer(r) PROVE AccessInv'
  <2>1. IsVisit(visit[r]) /\ Served(r)
    BY <1>2 DEF Answer, Served, AccessInv
  <2>2. visit[r].area \in {"admin", "proxy", "seller"} => visit[r].user # {}
    BY <2>1, GuardsStand DEF Served, IsVisit, Met
  <2>3. activity'.area \in {"admin", "proxy", "seller"} => activity'.who # {}
    BY <1>2, <2>2 DEF Answer, AccessInv
  <2> QED  BY <1>2, <2>3, VisitStep DEF Answer, Answered
<1>3. ASSUME TurnAway(r) PROVE AccessInv'
  BY <1>3, VisitStep DEF TurnAway, Answered, AccessInv
<1> QED  BY <1>1, <1>2, <1>3

\* A guard lets a request pass.
LEMMA GuardKeeps ==
    ASSUME AccessInv, AccessAssumption, NEW r \in Request, PassGuard(r)
    PROVE  AccessInv'
<1>v. PICK v : v = visit[r]
  OBVIOUS
<1>1. v # Idle /\ IsVisit(v)
  BY <1>v DEF PassGuard, AccessInv
<1>i. PICK i \in DOMAIN Registered :
       /\ IsNext(i, v)
       /\ \/ /\ Registered[i].guard = "staff" /\ StaffPasses(v.token)
             /\ visit' = [visit EXCEPT ![r] = [Passed(r, i) EXCEPT !.user = {v.token.subject}]]
          \/ /\ Registered[i].guard = "customer" /\ CustomerPasses(v.token)
             /\ visit' = [visit EXCEPT ![r] = Passed(r, i)]
          \/ /\ Registered[i].guard = "capability"
             /\ \E u \in v.user : CapabilityPasses(u)
                   /\ visit' = [visit EXCEPT ![r] = [Passed(r, i) EXCEPT !.seat = {staff[u]}]]
          \/ /\ Registered[i].guard \in {"basic", "session"}
             /\ visit' = [visit EXCEPT ![r] = Passed(r, i)]
  BY <1>v DEF PassGuard
<1>2. /\ UNCHANGED <<staff, visitor, token, clock, signedIn, altered>>
      /\ activity' = activity
  BY DEF PassGuard
<1>3. i \in Guards[v.area]
  BY <1>i DEF IsNext
<1>m. PICK m : m = v.met \cup {i}
  OBVIOUS
<1>4. /\ m \subseteq Guards[v.area]
      /\ \A g : (\E k \in m : Registered[k].guard = g) <=> Met(v, g) \/ Registered[i].guard = g
  BY <1>1, <1>3, <1>m DEF IsVisit, Met
<1>5. /\ v = [stage |-> "guarded", area |-> v.area, token |-> v.token, met |-> v.met,
              user |-> v.user, seat |-> v.seat]
      /\ v.area \in Area /\ IsIssued(v.token)
  BY <1>1 DEF IsVisit
<1>p. PICK p : p = [v EXCEPT !.met = m]
  OBVIOUS
<1>6. /\ Passed(r, i) = p
      /\ p = [stage |-> "guarded", area |-> v.area, token |-> v.token, met |-> m,
               user |-> v.user, seat |-> v.seat]
  <2>1. Passed(r, i) = p
    BY <1>v, <1>m, <1>p DEF Passed
  <2>2. [v EXCEPT !.met = m] =
            [stage |-> "guarded", area |-> v.area, token |-> v.token, met |-> m,
             user |-> v.user, seat |-> v.seat]
    BY <1>5
  <2> QED  BY <1>p, <2>1, <2>2
<1>7. ASSUME Registered[i].guard = "staff", StaffPasses(v.token),
             visit' = [visit EXCEPT ![r] = [Passed(r, i) EXCEPT !.user = {v.token.subject}]]
      PROVE  AccessInv'
  <2>w. PICK w : w = [stage |-> "guarded", area |-> v.area, token |-> v.token, met |-> m,
                    user |-> {v.token.subject}, seat |-> v.seat]
    OBVIOUS
  <2>1. visit' = [visit EXCEPT ![r] = w]
    <3>1. [p EXCEPT !.user = {v.token.subject}] =
              [stage |-> "guarded", area |-> v.area, token |-> v.token, met |-> m,
               user |-> {v.token.subject}, seat |-> v.seat]
      BY <1>6
    <3> QED  BY <1>6, <1>7, <2>w, <3>1
  <2>2. /\ Met(w, "staff") /\ w.token.type = "access" /\ w.token.subject \in Staff
        /\ Met(w, "customer") => Met(v, "customer")
        /\ Met(w, "capability") => Met(v, "capability")
    BY <1>4, <1>7, <2>w DEF Met, StaffPasses
  <2>3. Met(w, "capability") => \E s, u : w.seat = {s} /\ w.user = {u} /\ IsSeat(s, u)
    <3> SUFFICES ASSUME Met(w, "capability")
                 PROVE  \E s, u : w.seat = {s} /\ w.user = {u} /\ IsSeat(s, u)
      OBVIOUS
    <3>1. PICK s, u : v.seat = {s} /\ v.user = {u} /\ IsSeat(s, u)
      BY <1>1, <2>2 DEF IsVisit
    <3>2. v.user \in {{}, {v.token.subject}}
      BY <1>1 DEF IsVisit
    <3>3. u = v.token.subject
      BY <3>1, <3>2
    <3> QED  BY <2>w, <3>1, <3>3
  <2>4. IsVisit(w)
    BY <1>1, <1>4, <1>5, <2>w, <2>2, <2>3 DEF IsVisit
  <2> QED  BY <1>2, <2>1, <2>4, VisitStep DEF AccessInv
<1>8. ASSUME NEW s, visit' = [visit EXCEPT ![r] = [Passed(r, i) EXCEPT !.seat = s]],
             Registered[i].guard # "staff",
             Registered[i].guard = "customer" => CustomerPasses(v.token),
             IF Registered[i].guard = "capability"
             THEN \E u \in v.user : CapabilityPasses(u) /\ s = {staff[u]}
             ELSE s = v.seat
      PROVE  AccessInv'
  <2>w. PICK w : w = [stage |-> "guarded", area |-> v.area, token |-> v.token, met |-> m,
                    user |-> v.user, seat |-> s]
    OBVIOUS
  <2>1. visit' = [visit EXCEPT ![r] = w]
    <3>1. [p EXCEPT !.seat = s] =
              [stage |-> "guarded", area |-> v.area, token |-> v.token, met |-> m,
               user |-> v.user, seat |-> s]
      BY <1>6
    <3> QED  BY <1>6, <1>8, <2>w, <3>1
  <2>2. /\ Met(w, "staff") <=> Met(v, "staff")
        /\ Met(w, "customer") => Met(v, "customer") \/ CustomerPasses(v.token)
    BY <1>4, <1>8, <2>w DEF Met
  <2>3. Met(w, "capability") => \E x, u : w.seat = {x} /\ w.user = {u} /\ IsSeat(x, u)
    <3>1. CASE Registered[i].guard = "capability"
      <4>1. PICK u \in v.user : CapabilityPasses(u) /\ s = {staff[u]}
        BY <1>8, <3>1
      <4>2. v.user = {u} /\ u = v.token.subject /\ v.token.type = "access"
        BY <1>1, <4>1 DEF IsVisit
      <4>3. u \in Staff
        BY <1>1, <4>1, <4>2 DEF IsVisit
      <4>4. IsSeat(staff[u], u)
        BY <4>1, <4>3 DEF IsSeat, CapabilityPasses
      <4>5. w.seat = {staff[u]} /\ w.user = {u}
        BY <2>w, <4>1, <4>2
      <4> QED  BY <4>4, <4>5, Zenon
    <3>2. CASE Registered[i].guard # "capability"
      <4>1. Met(w, "capability") => Met(v, "capability")
        BY <1>4, <3>2, <2>w DEF Met
      <4> QED  BY <1>1, <1>8, <2>w, <3>2, <4>1 DEF IsVisit
    <3> QED  BY <3>1, <3>2
  <2>4. IsVisit(w)
    BY <1>1, <1>4, <1>5, <2>w, <2>2, <2>3 DEF IsVisit, CustomerPasses
  <2> QED  BY <1>2, <2>1, <2>4, VisitStep DEF AccessInv
<1>9. ASSUME visit' = [visit EXCEPT ![r] = Passed(r, i)]
      PROVE  visit' = [visit EXCEPT ![r] = [Passed(r, i) EXCEPT !.seat = v.seat]]
  <2>1. [p EXCEPT !.seat = v.seat] = p
    BY <1>6
  <2> QED  BY <1>6, <1>9, <2>1
<1> QED  BY <1>i, <1>7, <1>8, <1>9

LEMMA AccessStep ==
    ASSUME AccessInv, AccessAssumption, [AccessNext]_accessVars
    PROVE  AccessInv'
<1>1. ASSUME UNCHANGED accessVars PROVE AccessInv'
  <2>1. /\ UNCHANGED <<staff, visitor, token, clock, signedIn, altered>>
        /\ visit' = visit /\ activity' = activity
    BY <1>1 DEF accessVars
  <2>2. \A r \in Request : visit'[r] # Idle => IsVisit(visit[r])'
    BY <2>1, QuietStep, SameVisitKept
  <2>3. \A t \in token' : IsIssued(t)'
    BY <2>1 DEF AccessInv, IsIssued
  <2>4. AccessRows'
    BY <2>1 DEF AccessInv, AccessRows
  <2> QED  BY <2>1, <2>2, <2>3, <2>4 DEF AccessInv
<1>2. ASSUME NEW u \in Staff, LoginStaff(u) \/ DeleteStaff(u) PROVE AccessInv'
  BY <1>2, TokensKeep, StaffKeeps
<1> QED
  BY <1>1, <1>2, TickKeeps, StaffKeeps, TokensKeep, ComesAndGoes, GuardKeeps
     DEF AccessNext

\* What a request has when all its guards have let it pass.
LEMMA ServedHave ==
    ASSUME AccessInv, NEW r \in Request, Served(r), NEW v, v = visit[r]
    PROVE  /\ v.area \in {"admin", "proxy", "seller"} =>
                \E u \in v.user : /\ signedIn[u] >= 0
                                  /\ v.token.subject = u
                                  /\ v.token.until - AccessLife <= signedIn[u]
           /\ v.area = "seller" =>
                \E s \in v.seat : /\ s.role \in Capable
                                  /\ v.user \cap altered = {}
                                       => v.user # {} /\ \A u \in v.user : s = staff[u]
           /\ v.area = "store" => v.token.subject \in visitor /\ v.user = {}
<1>1. IsVisit(v) /\ Guards[v.area] \subseteq v.met
  BY DEF Served, AccessInv
<1>2. ASSUME v.area \in {"admin", "proxy", "seller"}
      PROVE  \E u \in v.user : /\ signedIn[u] >= 0
                               /\ v.token.subject = u
                               /\ v.token.until - AccessLife <= signedIn[u]
  <2>1. Met(v, "staff")
    BY <1>1, <1>2, GuardsStand DEF Met
  <2> QED  BY <1>1, <2>1 DEF IsVisit, IsIssued
<1>3. ASSUME v.area = "seller"
      PROVE  \E s \in v.seat : /\ s.role \in Capable
                               /\ v.user \cap altered = {}
                                    => v.user # {} /\ \A u \in v.user : s = staff[u]
  <2>1. Met(v, "capability")
    BY <1>1, <1>3, GuardsStand DEF Met
  <2> QED  BY <1>1, <2>1 DEF IsVisit, IsSeat
<1>4. ASSUME v.area = "store" PROVE v.token.subject \in visitor /\ v.user = {}
  <2>1. Met(v, "customer") /\ ~ Met(v, "staff")
    BY <1>1, <1>4, GuardsStand DEF Met, IsVisit
  <2> QED  BY <1>1, <2>1 DEF IsVisit
<1> QED  BY <1>2, <1>3, <1>4

\* Whatever accounts change and go, and however requests and their guards interleave:
\* the back office, the proxy and the sellers' pages are reached as the member of the
\* staff who signed in, with the rights of that account, the store's with a token of
\* the store, and logging in with none (ServedAsThemselves; SetupRoutes,
\* AuthMiddleware, CustomerAuthMiddleware, RequireCapability).
THEOREM StaffAreThemselves == AccessSpec => []ServedAsThemselves
<1>1. AccessInv /\ [AccessNext]_accessVars => AccessInv'
  BY AccessStep, AccessAssumption
<1>2. AccessInv => ServedAsThemselves
  <2> SUFFICES ASSUME AccessInv PROVE ServedAsThemselves
    OBVIOUS
  <2>1. Guards["auth"] = {} /\ Guards["store_public"] = {}
    BY GuardsStand
  <2>2. activity.area \in {"admin", "proxy", "seller"} => activity.who # {}
    BY DEF AccessInv
  <2> QED  BY <2>1, <2>2, ServedHave DEF ServedAsThemselves
<1> QED  BY <1>1, <1>2, AccessBegins, PTL DEF AccessSpec

-----------------------------------------------------------------------------
(* Analytics.  There are finitely many shifts, and the figures of one are    *)
(* naturals.                                                                *)

Worked == { s \in Branch \X Day : shift[s] # NoShift }

IsShift(x) ==
    x = NoShift \/ /\ x # NoShift /\ x.total \in Int /\ x.cash \in Nat
                   /\ x.operations \in Nat

AnalyticsInv ==
    /\ branches \subseteq Branch
    /\ named = [b \in Branch |-> named[b]]
    /\ IsFiniteSet(Worked)
    /\ shift = [s \in Branch \X Day |-> shift[s]]
    /\ \A s \in Branch \X Day : IsShift(shift[s])

LEMMA AnalyticsBegins == AnalyticsInit => AnalyticsInv
<1> SUFFICES ASSUME AnalyticsInit PROVE AnalyticsInv
  OBVIOUS
<1>1. Worked = {}
  BY DEF AnalyticsInit, Worked
<1> QED  BY <1>1, FS_EmptySet DEF AnalyticsInit, AnalyticsInv, IsShift

LEMMA AnalyticsStep ==
    ASSUME AnalyticsAssumption, AnalyticsInv, [AnalyticsNext]_analyticsVars
    PROVE  AnalyticsInv'
<1>1. CASE shift' = shift /\ (branches' = branches \/ branches' = Opened)
           /\ named' = [b \in Branch |-> named'[b]]
  <2>1. Worked' = Worked
    BY <1>1 DEF Worked
  <2>2. branches' \subseteq Branch
    BY <1>1 DEF Opened, AnalyticsInv
  <2> QED  BY <1>1, <2>1, <2>2 DEF AnalyticsInv, IsShift
<1>2. ASSUME NEW b \in Branch, NEW name \in BranchName, CreateBranch(b, name)
      PROVE  AnalyticsInv'
  <2>1. named' = [c \in Branch |-> named'[c]]
    BY <1>2 DEF CreateBranch, AnalyticsInv
  <2> QED  BY <1>1, <1>2, <2>1 DEF CreateBranch
<1>3. ASSUME NEW b \in Branch, NEW d \in Day, NEW total \in Takings, NEW cash \in Left,
             NEW operations \in Count, NEW readable \in BOOLEAN,
             Work(b, d, total, cash, operations, readable)
      PROVE  AnalyticsInv'
  <2> PICK row : row = [state |-> "there", total |-> total, cash |-> cash,
                        operations |-> operations, readable |-> readable]
    OBVIOUS
  <2>1. IsShift(row)
    <3>1. /\ row.state = "there" /\ row.total = total /\ row.cash = cash
          /\ row.operations = operations
      OBVIOUS
    <3>2. total \in Int /\ cash \in Nat /\ operations \in Nat
      BY DEF AnalyticsAssumption
    <3>3. row # NoShift
      BY <3>1 DEF NoShift
    <3> QED  BY <3>1, <3>2, <3>3 DEF IsShift
  <2>2. shift' = [shift EXCEPT ![<<b, d>>] = row] /\ named' = named /\ branches' = branches
    BY <1>3 DEF Work
  <2>3. Worked' \subseteq Worked \cup {<<b, d>>}
    BY <2>2 DEF AnalyticsInv, Worked
  <2>4. IsFiniteSet(Worked')
    <3>1. IsFiniteSet(Worked \cup {<<b, d>>})
      BY FS_AddElement DEF AnalyticsInv
    <3> QED  BY <2>3, <3>1, FS_Subset
  <2>5. /\ shift' = [s \in Branch \X Day |-> shift'[s]]
        /\ \A s \in Branch \X Day : IsShift(shift'[s])
    BY <2>1, <2>2 DEF AnalyticsInv
  <2> QED  BY <2>2, <2>4, <2>5 DEF AnalyticsInv, IsShift
<1>4. \/ shift' = shift /\ (branches' = branches \/ branches' = Opened) /\ named' = named
      \/ \E b \in Branch, name \in BranchName : CreateBranch(b, name)
      \/ \E b \in Branch, d \in Day, total \in Takings, cash \in Left, operations \in Count,
            readable \in BOOLEAN : Work(b, d, total, cash, operations, readable)
  BY DEF AnalyticsNext, analyticsVars, Restart
<1>5. named = [b \in Branch |-> named[b]]
  BY DEF AnalyticsInv
<1> QED  BY <1>1, <1>2, <1>3, <1>4, <1>5

-----------------------------------------------------------------------------
(* Greatest and least of finite sets of numbers.                            *)

\* c takes its least value somewhere.
LEMMA SomewhereLeast ==
    ASSUME NEW S, S # {}, NEW c, \A x \in S : c[x] \in Nat
    PROVE  \E x \in S : \A y \in S : c[x] <= c[y]
<1> DEFINE T == { c[x] : x \in S }
<1>1. T \subseteq Nat /\ T # {}
  OBVIOUS
<1> HIDE DEF T
<1>2. PICK n \in T : \A m \in T : ~ (<<m, n>> \in OpToRel(<, Nat))
  BY <1>1, NatLessThanWellFounded, WFMin
<1>r. ASSUME NEW m \in Nat, NEW k \in Nat, ~ (<<m, k>> \in OpToRel(<, Nat)) PROVE k <= m
  <2>1. <<m, k>> \in Nat \X Nat /\ <<m, k>>[1] = m /\ <<m, k>>[2] = k
    OBVIOUS
  <2>2. ~ (m < k)
    BY <1>r, <2>1 DEF OpToRel
  <2> QED  BY <2>2
<1>3. \A m \in T : n <= m
  BY <1>1, <1>2, <1>r
<1> QED  BY <1>1, <1>3 DEF T

\* A part of a finite set is finite and has fewer elements.
LEMMA Smaller ==
    \A T, A : IsFiniteSet(T) /\ A \subseteq T =>
        /\ IsFiniteSet(A) /\ Cardinality(A) \in Nat /\ Cardinality(T) \in Nat
        /\ Cardinality(A) <= Cardinality(T)
        /\ A # T => Cardinality(A) < Cardinality(T)
<1> SUFFICES ASSUME NEW T, IsFiniteSet(T), NEW A, A \subseteq T
             PROVE  /\ IsFiniteSet(A) /\ Cardinality(A) \in Nat /\ Cardinality(T) \in Nat
                    /\ Cardinality(A) <= Cardinality(T)
                    /\ A # T => Cardinality(A) < Cardinality(T)
  OBVIOUS
<1>1. /\ IsFiniteSet(A) /\ Cardinality(A) <= Cardinality(T)
      /\ (Cardinality(T) = Cardinality(A) => T = A)
  BY FS_Subset
<1>2. Cardinality(A) \in Nat /\ Cardinality(T) \in Nat
  BY <1>1, FS_CardinalityType
<1> QED  BY <1>1, <1>2

\* A finite set of numbers has a greatest and a least.
LEMMA Extremes ==
    ASSUME NEW S, S \subseteq Int, S # {}, IsFiniteSet(S)
    PROVE  /\ Max(S) \in S /\ \A y \in S : Max(S) >= y
           /\ Min(S) \in S /\ \A y \in S : Min(S) <= y
<1>1. \E x \in S : \A y \in S : x >= y
  <2> DEFINE over(x) == { y \in S : y > x }
             c == [x \in S |-> Cardinality(over(x))]
  <2>1. \A x \in S : c[x] \in Nat /\ IsFiniteSet(over(x))
    BY Smaller
  <2> HIDE DEF c
  <2>2. PICK x \in S : \A y \in S : c[x] <= c[y]
    BY <2>1, SomewhereLeast
  <2>3. ASSUME NEW y \in S, y > x PROVE FALSE
    <3>0. x \in Int /\ y \in Int /\ \A z \in S : z \in Int
      OBVIOUS
    <3>1. over(y) \subseteq over(x) /\ y \in over(x) /\ y \notin over(y)
      <4>1. \A z \in S : z > y => z > x
        BY <2>3, <3>0
      <4>2. ~ (y > y)
        BY <3>0
      <4> QED  BY <2>3, <4>1, <4>2
    <3> HIDE DEF over
    <3>2. Cardinality(over(y)) < Cardinality(over(x))
      BY Smaller, <2>1, <3>1
    <3>3. c[x] = Cardinality(over(x)) /\ c[y] = Cardinality(over(y))
      BY DEF c
    <3>4. c[x] <= c[y]
      BY <2>2
    <3> QED  BY <2>1, <3>2, <3>3, <3>4
  <2> QED  BY <2>3
<1>2. \E x \in S : \A y \in S : x <= y
  <2> DEFINE under(x) == { y \in S : y < x }
             c == [x \in S |-> Cardinality(under(x))]
  <2>1. \A x \in S : c[x] \in Nat /\ IsFiniteSet(under(x))
    BY Smaller
  <2> HIDE DEF c
  <2>2. PICK x \in S : \A y \in S : c[x] <= c[y]
    BY <2>1, SomewhereLeast
  <2>3. ASSUME NEW y \in S, y < x PROVE FALSE
    <3>0. x \in Int /\ y \in Int /\ \A z \in S : z \in Int
      OBVIOUS
    <3>1. under(y) \subseteq under(x) /\ y \in under(x) /\ y \notin under(y)
      <4>1. \A z \in S : z < y => z < x
        BY <2>3, <3>0
      <4>2. ~ (y < y)
        BY <3>0
      <4> QED  BY <2>3, <4>1, <4>2
    <3> HIDE DEF under
    <3>2. Cardinality(under(y)) < Cardinality(under(x))
      BY Smaller, <2>1, <3>1
    <3>3. c[x] = Cardinality(under(x)) /\ c[y] = Cardinality(under(y))
      BY DEF c
    <3>4. c[x] <= c[y]
      BY <2>2
    <3> QED  BY <2>1, <3>2, <3>3, <3>4
  <2> QED  BY <2>3
<1> QED  BY <1>1, <1>2 DEF Max, Min

-----------------------------------------------------------------------------
(* Journals that a page draws, and what they come to.                       *)

IsDrawn(J) ==
    /\ J \subseteq Branch \X Day /\ IsFiniteSet(J)
    /\ \A s \in J : /\ shift[s].total \in Nat /\ shift[s].operations \in Nat
                    /\ shift[s].cash \in Nat

LEMMA PartIsDrawn ==
    ASSUME NEW J, IsDrawn(J), NEW I, I \subseteq J
    PROVE  IsDrawn(I)
<1>1. IsFiniteSet(I)
  BY FS_Subset DEF IsDrawn
<1> QED  BY <1>1 DEF IsDrawn

LEMMA DrawnTables ==
    ASSUME NEW J, IsDrawn(J)
    PROVE  /\ IsTable([s \in J |-> shift[s].total])
           /\ IsTable([s \in J |-> shift[s].cash])
           /\ IsTable([s \in J |-> shift[s].operations])
<1>1. ASSUME NEW f, f = [s \in J |-> f[s]], \A s \in J : f[s] \in Int PROVE IsTable(f)
  BY <1>1 DEF IsTable, IsDrawn
<1> QED  BY <1>1 DEF IsDrawn

LEMMA FiguresAreNaturals ==
    ASSUME NEW J, IsDrawn(J)
    PROVE  /\ Revenue(J) \in Nat /\ Operations(J) \in Nat /\ Cash(J) \in Nat
BY DrawnTables, CoinsAreFinite DEF Revenue, Operations, Cash

LEMMA MoreIsDrawn ==
    ASSUME NEW J, IsDrawn(J), NEW I, I \subseteq J
    PROVE  Revenue(I) <= Revenue(J)
<1> DEFINE f == [s \in I |-> shift[s].total]
           g == [s \in J |-> shift[s].total]
<1>1. IsTable(f) /\ IsTable(g)
  BY PartIsDrawn, DrawnTables
<1>2. DOMAIN f = I /\ DOMAIN g = J /\ \A s \in I : f[s] <= g[s]
  BY DEF IsDrawn
<1>3. CoinSum(f) <= CoinSum(g)
  <2> HIDE DEF f, g
  <2> QED  BY <1>1, <1>2, CoinsGrow
<1> QED  BY <1>3 DEF Revenue

LEMMA KeysAreFinite ==
    ASSUME NEW J, IsDrawn(J)
    PROVE  /\ IsFiniteSet(DaysOf(J)) /\ DaysOf(J) \subseteq Day
           /\ IsFiniteSet(BranchesOf(J)) /\ BranchesOf(J) \subseteq Branch
<1> DEFINE day == [s \in J |-> s[2]]
           of == [s \in J |-> s[1]]
<1>1. day \in Surjection(J, DaysOf(J))
  BY DEF Surjection, DaysOf
<1>2. of \in Surjection(J, BranchesOf(J))
  BY DEF Surjection, BranchesOf
<1>3. IsFiniteSet(DaysOf(J)) /\ IsFiniteSet(BranchesOf(J))
  BY <1>1, <1>2, FS_Surjection DEF IsDrawn
<1> QED  BY <1>3 DEF IsDrawn, DaysOf, BranchesOf

\* By day, and by branch, amounts of journals come to the same.
LEMMA ByDay ==
    ASSUME NEW J, IsDrawn(J), NEW f, IsTable(f), DOMAIN f = J
    PROVE  CoinSum([d \in DaysOf(J) |-> CoinSum([s \in OnDay(J, d) |-> f[s]])]) = CoinSum(f)
<1> DEFINE day == [s \in J |-> s[2]]
<1>1. IsFiniteSet(DaysOf(J)) /\ \A s \in DOMAIN f : day[s] \in DaysOf(J)
  BY KeysAreFinite DEF DaysOf
<1>2. \A d : Part(f, day, d) = [s \in OnDay(J, d) |-> f[s]]
  <2>1. \A d : { s \in DOMAIN f : day[s] = d } = OnDay(J, d)
    BY DEF OnDay
  <2> HIDE DEF day
  <2> QED  BY <2>1 DEF Part
<1>3. CoinSum([d \in DaysOf(J) |-> CoinSum(Part(f, day, d))]) = CoinSum(f)
  <2> HIDE DEF day
  <2> QED  BY <1>1, CoinsOfParts
<1> QED  BY <1>2, <1>3

LEMMA ByBranch ==
    ASSUME NEW J, IsDrawn(J), NEW f, IsTable(f), DOMAIN f = J
    PROVE  CoinSum([b \in BranchesOf(J) |-> CoinSum([s \in OfBranch(J, b) |-> f[s]])])
             = CoinSum(f)
<1> DEFINE of == [s \in J |-> s[1]]
<1>1. IsFiniteSet(BranchesOf(J)) /\ \A s \in DOMAIN f : of[s] \in BranchesOf(J)
  BY KeysAreFinite DEF BranchesOf
<1>2. \A b : Part(f, of, b) = [s \in OfBranch(J, b) |-> f[s]]
  <2>1. \A b : { s \in DOMAIN f : of[s] = b } = OfBranch(J, b)
    BY DEF OfBranch
  <2> HIDE DEF of
  <2> QED  BY <2>1 DEF Part
<1>3. CoinSum([b \in BranchesOf(J) |-> CoinSum(Part(f, of, b))]) = CoinSum(f)
  <2> HIDE DEF of
  <2> QED  BY <1>1, CoinsOfParts
<1> QED  BY <1>2, <1>3

LEMMA DaysCome ==
    ASSUME NEW J, IsDrawn(J)
    PROVE  /\ CoinSum([d \in DaysOf(J) |-> Revenue(OnDay(J, d))]) = Revenue(J)
           /\ CoinSum([d \in DaysOf(J) |-> Cash(OnDay(J, d))]) = Cash(J)
           /\ CoinSum([d \in DaysOf(J) |-> Operations(OnDay(J, d))]) = Operations(J)
<1> DEFINE total == [s \in J |-> shift[s].total]
           cash == [s \in J |-> shift[s].cash]
           operations == [s \in J |-> shift[s].operations]
<1>1. IsTable(total) /\ IsTable(cash) /\ IsTable(operations)
  BY DrawnTables
<1>2. \A d : /\ Revenue(OnDay(J, d)) = CoinSum([s \in OnDay(J, d) |-> total[s]])
             /\ Cash(OnDay(J, d)) = CoinSum([s \in OnDay(J, d) |-> cash[s]])
             /\ Operations(OnDay(J, d)) = CoinSum([s \in OnDay(J, d) |-> operations[s]])
  <2> SUFFICES ASSUME NEW d
               PROVE  /\ Revenue(OnDay(J, d)) = CoinSum([s \in OnDay(J, d) |-> total[s]])
                      /\ Cash(OnDay(J, d)) = CoinSum([s \in OnDay(J, d) |-> cash[s]])
                      /\ Operations(OnDay(J, d)) = CoinSum([s \in OnDay(J, d) |-> operations[s]])
    OBVIOUS
  <2>1. OnDay(J, d) \subseteq J
    BY DEF OnDay
  <2>2. /\ [s \in OnDay(J, d) |-> total[s]] = [s \in OnDay(J, d) |-> shift[s].total]
        /\ [s \in OnDay(J, d) |-> cash[s]] = [s \in OnDay(J, d) |-> shift[s].cash]
        /\ [s \in OnDay(J, d) |-> operations[s]] = [s \in OnDay(J, d) |-> shift[s].operations]
    BY <2>1
  <2> QED  BY <2>2 DEF Revenue, Cash, Operations
<1>3. /\ DOMAIN total = J /\ DOMAIN cash = J /\ DOMAIN operations = J
      /\ Revenue(J) = CoinSum(total) /\ Cash(J) = CoinSum(cash)
      /\ Operations(J) = CoinSum(operations)
  BY DEF Revenue, Cash, Operations
<1> HIDE DEF total, cash, operations
<1>4. /\ CoinSum([d \in DaysOf(J) |-> CoinSum([s \in OnDay(J, d) |-> total[s]])]) = CoinSum(total)
      /\ CoinSum([d \in DaysOf(J) |-> CoinSum([s \in OnDay(J, d) |-> cash[s]])]) = CoinSum(cash)
      /\ CoinSum([d \in DaysOf(J) |-> CoinSum([s \in OnDay(J, d) |-> operations[s]])])
           = CoinSum(operations)
  BY <1>1, <1>3, ByDay
<1> QED  BY <1>2, <1>3, <1>4

LEMMA BranchesCome ==
    ASSUME NEW J, IsDrawn(J)
    PROVE  /\ CoinSum([b \in BranchesOf(J) |-> Revenue(OfBranch(J, b))]) = Revenue(J)
           /\ CoinSum([b \in BranchesOf(J) |-> Cash(OfBranch(J, b))]) = Cash(J)
           /\ CoinSum([b \in BranchesOf(J) |-> Operations(OfBranch(J, b))]) = Operations(J)
<1> DEFINE total == [s \in J |-> shift[s].total]
           cash == [s \in J |-> shift[s].cash]
           operations == [s \in J |-> shift[s].operations]
<1>1. IsTable(total) /\ IsTable(cash) /\ IsTable(operations)
  BY DrawnTables
<1>2. \A b : /\ Revenue(OfBranch(J, b)) = CoinSum([s \in OfBranch(J, b) |-> total[s]])
             /\ Cash(OfBranch(J, b)) = CoinSum([s \in OfBranch(J, b) |-> cash[s]])
             /\ Operations(OfBranch(J, b)) = CoinSum([s \in OfBranch(J, b) |-> operations[s]])
  <2> SUFFICES ASSUME NEW b
               PROVE  /\ Revenue(OfBranch(J, b)) = CoinSum([s \in OfBranch(J, b) |-> total[s]])
                      /\ Cash(OfBranch(J, b)) = CoinSum([s \in OfBranch(J, b) |-> cash[s]])
                      /\ Operations(OfBranch(J, b))
                           = CoinSum([s \in OfBranch(J, b) |-> operations[s]])
    OBVIOUS
  <2>1. OfBranch(J, b) \subseteq J
    BY DEF OfBranch
  <2>2. /\ [s \in OfBranch(J, b) |-> total[s]] = [s \in OfBranch(J, b) |-> shift[s].total]
        /\ [s \in OfBranch(J, b) |-> cash[s]] = [s \in OfBranch(J, b) |-> shift[s].cash]
        /\ [s \in OfBranch(J, b) |-> operations[s]]
             = [s \in OfBranch(J, b) |-> shift[s].operations]
    BY <2>1
  <2> QED  BY <2>2 DEF Revenue, Cash, Operations
<1>3. /\ DOMAIN total = J /\ DOMAIN cash = J /\ DOMAIN operations = J
      /\ Revenue(J) = CoinSum(total) /\ Cash(J) = CoinSum(cash)
      /\ Operations(J) = CoinSum(operations)
  BY DEF Revenue, Cash, Operations
<1> HIDE DEF total, cash, operations
<1>4. /\ CoinSum([b \in BranchesOf(J) |-> CoinSum([s \in OfBranch(J, b) |-> total[s]])])
           = CoinSum(total)
      /\ CoinSum([b \in BranchesOf(J) |-> CoinSum([s \in OfBranch(J, b) |-> cash[s]])])
           = CoinSum(cash)
      /\ CoinSum([b \in BranchesOf(J) |-> CoinSum([s \in OfBranch(J, b) |-> operations[s]])])
           = CoinSum(operations)
  BY <1>1, <1>3, ByBranch
<1> QED  BY <1>2, <1>3, <1>4

\* What calculateDailyMetrics says of a day.
LEMMA Daily ==
    ASSUME NEW J
    PROVE  /\ DOMAIN calculateDailyMetrics(J) = DaysOf(J)
           /\ \A d \in DaysOf(J) :
                 /\ calculateDailyMetrics(J)[d].revenue = Revenue(OnDay(J, d))
                 /\ calculateDailyMetrics(J)[d].cash = Cash(OnDay(J, d))
                 /\ calculateDailyMetrics(J)[d].operations = Operations(OnDay(J, d))
BY DEF calculateDailyMetrics

\* The days that a smoothed chart looks back on.
Last(J, n, d) ==
    { e \in DaysOf(J) :
        e <= d /\ Cardinality({ x \in DaysOf(J) : x > e /\ x <= d }) < n }
OnWeekday(J, w) == { d \in DaysOf(J) : d % Week = w }

LEMMA MovingAverageIs ==
    ASSUME NEW J, NEW n, NEW d \in DaysOf(J)
    PROVE  MovingAverage(J, n)[d]
             = Mean(CoinSum([e \in Last(J, n, d) |-> Revenue(OnDay(J, e))]),
                    Cardinality(Last(J, n, d)))
<1>1. /\ DOMAIN calculateDailyMetrics(J) = DaysOf(J)
      /\ \A e \in DaysOf(J) : calculateDailyMetrics(J)[e].revenue = Revenue(OnDay(J, e))
  BY Daily
<1>2. Last(J, n, d) \subseteq DaysOf(J)
  BY DEF Last
<1>3. MovingAverage(J, n)[d]
        = Mean(CoinSum([e \in Last(J, n, d) |-> calculateDailyMetrics(J)[e].revenue]),
               Cardinality(Last(J, n, d)))
  BY <1>1 DEF MovingAverage, Last
<1>4. [e \in Last(J, n, d) |-> calculateDailyMetrics(J)[e].revenue]
        = [e \in Last(J, n, d) |-> Revenue(OnDay(J, e))]
  BY <1>1, <1>2
<1> QED  BY <1>3, <1>4

LEMMA WeekdaysAre ==
    ASSUME NEW J
    PROVE  /\ DOMAIN WeekdayAverages(J) = 0..(Week - 1)
           /\ \A w \in 0..(Week - 1) : WeekdayAverages(J)[w].sum
                 = CoinSum([d \in OnWeekday(J, w) |-> Revenue(OnDay(J, d))])
<1>1. /\ DOMAIN calculateDailyMetrics(J) = DaysOf(J)
      /\ \A d \in DaysOf(J) : calculateDailyMetrics(J)[d].revenue = Revenue(OnDay(J, d))
  BY Daily
<1>2. \A w : OnWeekday(J, w) \subseteq DaysOf(J)
  BY DEF OnWeekday
<1>3. \A w \in 0..(Week - 1) : WeekdayAverages(J)[w].sum
        = CoinSum([d \in OnWeekday(J, w) |-> calculateDailyMetrics(J)[d].revenue])
  BY <1>1 DEF WeekdayAverages, OnWeekday, Mean
<1>4. \A w : [d \in OnWeekday(J, w) |-> calculateDailyMetrics(J)[d].revenue]
               = [d \in OnWeekday(J, w) |-> Revenue(OnDay(J, d))]
  BY <1>1, <1>2
<1>5. DOMAIN WeekdayAverages(J) = 0..(Week - 1)
  BY DEF WeekdayAverages
<1> QED  BY <1>3, <1>4, <1>5

LEMMA DaysPageIs ==
    ASSUME NEW J
    PROVE  /\ DaysPage(J).charts.revenue = [d \in DaysOf(J) |-> Revenue(OnDay(J, d))]
           /\ DaysPage(J).weekdays = WeekdayAverages(J)
           /\ \A n \in {3, Week} : DaysPage(J).charts.average[n] = MovingAverage(J, n)
           /\ \A d \in DaysOf(J) :
                 /\ DaysPage(J).charts.kpis[d].operations = Operations(OnDay(J, d))
                 /\ DaysPage(J).charts.methods[d]
                      = Ratio(Cash(OnDay(J, d)), Revenue(OnDay(J, d)))
<1>0. /\ DOMAIN calculateDailyMetrics(J) = DaysOf(J)
      /\ \A d \in DaysOf(J) :
            /\ calculateDailyMetrics(J)[d].revenue = Revenue(OnDay(J, d))
            /\ calculateDailyMetrics(J)[d].cash = Cash(OnDay(J, d))
            /\ calculateDailyMetrics(J)[d].operations = Operations(OnDay(J, d))
  BY Daily
<1>1. /\ DaysPage(J).charts = GlobalAnalytics(J) /\ DaysPage(J).weekdays = WeekdayAverages(J)
  BY DEF DaysPage
<1>2. /\ GlobalAnalytics(J).revenue = DailyRevenue(J)
      /\ GlobalAnalytics(J).methods = PaymentMethodTrends(J)
      /\ GlobalAnalytics(J).average = [n \in {3, Week} |-> MovingAverage(J, n)]
      /\ GlobalAnalytics(J).kpis = FinancialKPIs(J)
  BY DEF GlobalAnalytics
<1>3. DailyRevenue(J) = [d \in DaysOf(J) |-> Revenue(OnDay(J, d))]
  BY <1>0 DEF DailyRevenue
<1>4. \A d \in DaysOf(J) :
          PaymentMethodTrends(J)[d] = Ratio(Cash(OnDay(J, d)), Revenue(OnDay(J, d)))
  BY <1>0 DEF PaymentMethodTrends
<1>5. \A d \in DaysOf(J) : FinancialKPIs(J)[d].operations = Operations(OnDay(J, d))
  BY <1>0 DEF FinancialKPIs
<1> QED  BY <1>1, <1>2, <1>3, <1>4, <1>5

\* The weekdays come to what the days do.
LEMMA WeekdaysCome ==
    ASSUME AnalyticsAssumption, NEW J, IsDrawn(J)
    PROVE  CoinSum([w \in 0..(Week - 1) |->
                      CoinSum([d \in OnWeekday(J, w) |-> Revenue(OnDay(J, d))])]) = Revenue(J)
<1> DEFINE f == [d \in DaysOf(J) |-> Revenue(OnDay(J, d))]
           on == [d \in DaysOf(J) |-> d % Week]
<1>1. IsFiniteSet(DaysOf(J)) /\ DaysOf(J) \subseteq Nat /\ Week \in Nat \ {0}
  BY KeysAreFinite DEF AnalyticsAssumption
<1>2. IsTable(f) /\ DOMAIN f = DaysOf(J)
  <2>1. \A d : OnDay(J, d) \subseteq J
    BY DEF OnDay
  <2>2. \A d : Revenue(OnDay(J, d)) \in Nat
    BY <2>1, PartIsDrawn, FiguresAreNaturals
  <2> QED  BY <1>1, <2>2 DEF IsTable
<1>3. IsFiniteSet(0..(Week - 1)) /\ \A d \in DOMAIN f : on[d] \in 0..(Week - 1)
  <2>1. IsFiniteSet(0..(Week - 1))
    BY <1>1, FS_Interval
  <2>2. \A d \in Nat : d % Week \in 0..(Week - 1)
    BY <1>1
  <2> QED  BY <1>1, <2>1, <2>2
<1>4. \A w : Part(f, on, w) = [d \in OnWeekday(J, w) |-> Revenue(OnDay(J, d))]
  BY DEF Part, OnWeekday
<1>5. CoinSum([w \in 0..(Week - 1) |-> CoinSum(Part(f, on, w))]) = CoinSum(f)
  <2> HIDE DEF f, on
  <2> QED  BY <1>2, <1>3, CoinsOfParts
<1>6. CoinSum(f) = Revenue(J)
  BY DaysCome
<1> QED  BY <1>4, <1>5, <1>6

\* On the last of no more than n days a smoothed chart has all of them.
LEMMA LastOfFew ==
    ASSUME AnalyticsAssumption, NEW J, IsDrawn(J), J # {}, NEW n \in Nat,
           Cardinality(DaysOf(J)) <= n
    PROVE  /\ Max(DaysOf(J)) \in DaysOf(J)
           /\ Last(J, n, Max(DaysOf(J))) = DaysOf(J)
<1> DEFINE D == DaysOf(J)
           m == Max(D)
<1>1. IsFiniteSet(D) /\ D \subseteq Int /\ D # {}
  <2>1. IsFiniteSet(D) /\ D \subseteq Day
    BY KeysAreFinite
  <2>2. D # {}
    BY DEF DaysOf
  <2>3. Day \subseteq Int
    BY DEF AnalyticsAssumption
  <2> QED  BY <2>1, <2>2, <2>3
<1>2. m \in D /\ \A e \in D : m >= e
  BY <1>1, Extremes
<1>3. ASSUME NEW e \in D PROVE Cardinality({ x \in D : x > e /\ x <= m }) < n
  <2> DEFINE after == { x \in D : x > e /\ x <= m }
  <2>1. after \subseteq D /\ e \notin after
    BY <1>1
  <2> HIDE DEF after
  <2>2. Cardinality(after) <= Cardinality(D) /\ Cardinality(after) # Cardinality(D)
        /\ IsFiniteSet(after)
    BY <1>1, <1>3, <2>1, FS_Subset
  <2>3. Cardinality(after) \in Nat /\ Cardinality(D) \in Nat
    BY <1>1, <2>2, FS_CardinalityType
  <2>4. Cardinality(after) < n
    BY <2>2, <2>3
  <2> QED  BY <2>4 DEF after
<1> HIDE DEF m
<1>4. { e \in D : e <= m /\ Cardinality({ x \in D : x > e /\ x <= m }) < n } = D
  BY <1>1, <1>2, <1>3
<1> QED  BY <1>2, <1>4 DEF Last, m

LEMMA DaysDoAddUp ==
    ASSUME AnalyticsAssumption, NEW J, IsDrawn(J), J # {}
    PROVE  DaysAddUp(J)
<1>1. CoinSum(DaysPage(J).charts.revenue) = Revenue(J)
  BY DaysPageIs, DaysCome
<1>2. CoinSum([w \in DOMAIN DaysPage(J).weekdays |-> DaysPage(J).weekdays[w].sum]) = Revenue(J)
  <2>1. DaysPage(J).weekdays = WeekdayAverages(J)
    BY DaysPageIs
  <2>2. DOMAIN WeekdayAverages(J) = 0..(Week - 1)
    BY WeekdaysAre
  <2>3. [w \in 0..(Week - 1) |-> WeekdayAverages(J)[w].sum]
          = [w \in 0..(Week - 1) |->
                CoinSum([d \in OnWeekday(J, w) |-> Revenue(OnDay(J, d))])]
    BY WeekdaysAre
  <2> QED  BY <2>1, <2>2, <2>3, WeekdaysCome
<1>3. ASSUME NEW n \in {3, Week}, Cardinality(DaysOf(J)) <= n
      PROVE  DaysPage(J).charts.average[n][Max(DaysOf(J))]
               = Mean(Revenue(J), Cardinality(DaysOf(J)))
  <2>1. n \in Nat
    BY DEF AnalyticsAssumption
  <2>2. Max(DaysOf(J)) \in DaysOf(J) /\ Last(J, n, Max(DaysOf(J))) = DaysOf(J)
    BY <1>3, <2>1, LastOfFew
  <2>3. DaysPage(J).charts.average[n] = MovingAverage(J, n)
    BY DaysPageIs
  <2>4. MovingAverage(J, n)[Max(DaysOf(J))]
          = Mean(CoinSum([e \in DaysOf(J) |-> Revenue(OnDay(J, e))]), Cardinality(DaysOf(J)))
    BY <2>2, MovingAverageIs
  <2> QED  BY <2>3, <2>4, DaysCome
<1>4. CoinSum([d \in DaysOf(J) |-> DaysPage(J).charts.kpis[d].operations]) = Operations(J)
  <2>1. [d \in DaysOf(J) |-> DaysPage(J).charts.kpis[d].operations]
          = [d \in DaysOf(J) |-> Operations(OnDay(J, d))]
    BY DaysPageIs
  <2> QED  BY <2>1, DaysCome
<1> QED  BY <1>1, <1>2, <1>3, <1>4 DEF DaysAddUp

\* What is drawn in cash, by day and by branch, comes to the cash there is, where
\* nothing earned means no cash.
LEMMA CashOfRatio ==
    ASSUME NEW I, IsDrawn(I), Revenue(I) = 0 => Cash(I) = 0
    PROVE  Ratio(Cash(I), Revenue(I)).sum = Cash(I)
<1>1. /\ Cash(I) \in Nat /\ Revenue(I) \in Nat
  BY FiguresAreNaturals
<1> QED  BY <1>1 DEF Ratio, Mean

\* The figures of a branch, from which the pages are made.
LEMMA GeneralPageIs ==
    ASSUME NEW J
    PROVE  /\ GeneralPage(J).cards.revenue
                = CoinSum([b \in BranchesOf(J) |-> Revenue(OfBranch(J, b))])
           /\ GeneralPage(J).cards.transactions
                = CoinSum([b \in BranchesOf(J) |-> Operations(OfBranch(J, b))])
           /\ GeneralPage(J).cards.active = Cardinality(BranchesOf(J))
           /\ GeneralPage(J).ranking = Ranking(calculateBranchAnalytics(J))
           /\ \A b \in BranchesOf(J) :
                 /\ GeneralPage(J).compared[b] = BranchAnalytics(OfBranch(J, b))
                 /\ GeneralPage(J).growth[b] = Growth(OfBranch(J, b))
                 /\ GeneralPage(J).branch[b] = Detail(OfBranch(J, b))
<1> DEFINE analytics == calculateBranchAnalytics(J)
<1>1. analytics = [b \in BranchesOf(J) |-> BranchAnalytics(OfBranch(J, b))]
  BY DEF calculateBranchAnalytics
<1> HIDE DEF analytics
<1>2. \A b \in BranchesOf(J) :
          /\ analytics[b].revenue = Revenue(OfBranch(J, b))
          /\ analytics[b].transactions = Operations(OfBranch(J, b))
          /\ analytics[b].growth = Growth(OfBranch(J, b))
  BY <1>1 DEF BranchAnalytics
<1>3. /\ GeneralPage(J).cards = Overview(analytics)
      /\ GeneralPage(J).ranking = Ranking(analytics)
      /\ GeneralPage(J).compared = analytics
      /\ GeneralPage(J).growth = GrowthRates(analytics)
      /\ GeneralPage(J).branch = [b \in BranchesOf(J) |-> Detail(OfBranch(J, b))]
  BY DEF GeneralPage, analytics
<1>4. /\ Overview(analytics).revenue
           = CoinSum([b \in BranchesOf(J) |-> Revenue(OfBranch(J, b))])
      /\ Overview(analytics).transactions
           = CoinSum([b \in BranchesOf(J) |-> Operations(OfBranch(J, b))])
      /\ Overview(analytics).active = Cardinality(BranchesOf(J))
  <2>1. DOMAIN analytics = BranchesOf(J)
    BY <1>1
  <2>2. /\ [b \in BranchesOf(J) |-> analytics[b].revenue]
             = [b \in BranchesOf(J) |-> Revenue(OfBranch(J, b))]
        /\ [b \in BranchesOf(J) |-> analytics[b].transactions]
             = [b \in BranchesOf(J) |-> Operations(OfBranch(J, b))]
    BY <1>2
  <2>3. /\ Overview(analytics).revenue
             = CoinSum([b \in DOMAIN analytics |-> analytics[b].revenue])
        /\ Overview(analytics).transactions
             = CoinSum([b \in DOMAIN analytics |-> analytics[b].transactions])
        /\ Overview(analytics).active = Cardinality(DOMAIN analytics)
    BY DEF Overview
  <2> QED  BY <2>1, <2>2, <2>3
<1>5. \A b \in BranchesOf(J) : GrowthRates(analytics)[b] = Growth(OfBranch(J, b))
  BY <1>1, <1>2 DEF GrowthRates
<1> QED  BY <1>1, <1>3, <1>4, <1>5 DEF analytics

LEMMA DetailIs ==
    ASSUME NEW I
    PROVE  /\ Detail(I).revenue = Revenue(I)
           /\ Detail(I).average = Mean(Revenue(I), Cardinality(I))
           /\ Detail(I).cash = Ratio(Cash(I), Revenue(I))
           /\ Detail(I).best = Max({0} \cup { shift[s].total : s \in I })
           /\ BranchAnalytics(I).worst = Min({ shift[s].total : s \in I })
BY DEF Detail, BranchAnalytics

-----------------------------------------------------------------------------
(* The ranking.                                                             *)

Better(revenue, b) == { c \in DOMAIN revenue : revenue[c] > revenue[b] }
NoWorse(revenue, b) == { c \in DOMAIN revenue : revenue[c] >= revenue[b] }
Places(revenue) ==
    [b \in DOMAIN revenue |->
        Cardinality(Better(revenue, b)) .. (Cardinality(NoWorse(revenue, b)) - 1)]

\* Whoever has more stands before, and every place is somebody's.
LEMMA PlacesAreTaken ==
    ASSUME NEW revenue, IsFiniteSet(DOMAIN revenue),
           \A b \in DOMAIN revenue : revenue[b] \in Nat
    PROVE  /\ UNION { Places(revenue)[b] : b \in DOMAIN revenue }
                = 0..(Cardinality(DOMAIN revenue) - 1)
           /\ \A b, c \in DOMAIN revenue :
                 \A i \in Places(revenue)[b], k \in Places(revenue)[c] :
                     i < k => revenue[b] >= revenue[c]
<1> DEFINE S == DOMAIN revenue
           lo(b) == Cardinality(Better(revenue, b))
           hi(b) == Cardinality(NoWorse(revenue, b)) - 1
<1>0. Cardinality(S) \in Nat
  BY FS_CardinalityType
<1>1. ASSUME NEW b \in S
      PROVE  /\ IsFiniteSet(Better(revenue, b)) /\ IsFiniteSet(NoWorse(revenue, b))
             /\ lo(b) \in Nat /\ Cardinality(NoWorse(revenue, b)) \in Nat
             /\ hi(b) \in Int /\ hi(b) < Cardinality(S)
  <2>1. Better(revenue, b) \subseteq S /\ NoWorse(revenue, b) \subseteq S
    BY DEF Better, NoWorse
  <2>2. /\ IsFiniteSet(Better(revenue, b)) /\ IsFiniteSet(NoWorse(revenue, b))
        /\ Cardinality(Better(revenue, b)) \in Nat /\ Cardinality(NoWorse(revenue, b)) \in Nat
        /\ Cardinality(NoWorse(revenue, b)) <= Cardinality(S)
    BY <2>1, Smaller
  <2> QED  BY <1>0, <2>2
<1>2. \A b \in S : Places(revenue)[b] = lo(b)..hi(b)
  BY DEF Places
<1>3. ASSUME NEW b \in S, NEW c \in S, revenue[b] < revenue[c] PROVE hi(c) < lo(b)
  <2>1. NoWorse(revenue, c) \subseteq Better(revenue, b)
    BY <1>3 DEF NoWorse, Better
  <2>2. Cardinality(NoWorse(revenue, c)) <= Cardinality(Better(revenue, b))
    BY <1>1, <2>1, Smaller
  <2> QED  BY <1>1, <2>2
<1> HIDE DEF lo, hi
<1>4. ASSUME NEW b \in S, NEW c \in S,
             NEW i \in Places(revenue)[b], NEW k \in Places(revenue)[c], i < k
      PROVE  revenue[b] >= revenue[c]
  <2>1. i \in lo(b)..hi(b) /\ k \in lo(c)..hi(c)
    BY <1>2
  <2>2. i \in Int /\ k \in Int /\ lo(b) <= i /\ k <= hi(c)
    BY <1>1, <2>1
  <2>3. revenue[b] < revenue[c] => hi(c) < lo(b)
    BY <1>3
  <2> QED  BY <1>1, <1>4, <2>2, <2>3
<1>5. ASSUME NEW b \in S, NEW i \in Places(revenue)[b] PROVE i \in 0..(Cardinality(S) - 1)
  <2>1. i \in lo(b)..hi(b)
    BY <1>2
  <2> QED  BY <1>0, <1>1, <2>1
<1>6. ASSUME NEW k \in 0..(Cardinality(S) - 1) PROVE \E b \in S : k \in Places(revenue)[b]
  <2> DEFINE R == { b \in S : hi(b) >= k }
  <2>1. R # {}
    <3>1. S # {}
      BY <1>0, <1>6, FS_EmptySet
    <3>2. PICK b \in S : \A c \in S : revenue[b] <= revenue[c]
      BY <3>1, SomewhereLeast
    <3>3. NoWorse(revenue, b) = S
      BY <3>2 DEF NoWorse
    <3>4. hi(b) = Cardinality(S) - 1
      BY <3>3 DEF hi
    <3> QED  BY <1>0, <1>6, <3>4
  <2>2. PICK b \in R : \A c \in R : hi(b) <= hi(c)
    <3> DEFINE h == [c \in R |-> hi(c)]
    <3>1. \A c \in R : h[c] \in Nat
      BY <1>0, <1>1
    <3>2. \E c \in R : \A e \in R : h[c] <= h[e]
      <4> HIDE DEF h
      <4> QED  BY <2>1, <3>1, SomewhereLeast
    <3> QED  BY <3>2
  <2>3. b \in S /\ hi(b) >= k
    OBVIOUS
  <2>4. CASE Better(revenue, b) = {}
    <3>1. lo(b) = 0
      BY <2>4, FS_EmptySet DEF lo
    <3>2. k \in lo(b)..hi(b)
      BY <1>1, <2>3, <3>1
    <3> QED  BY <1>2, <2>3, <3>2
  <2>5. CASE Better(revenue, b) # {}
    <3>1. Better(revenue, b) \subseteq S
      BY DEF Better
    <3>2. PICK c \in Better(revenue, b) : \A e \in Better(revenue, b) : revenue[c] <= revenue[e]
      BY <2>5, <3>1, SomewhereLeast
    <3>3. c \in S /\ revenue[b] < revenue[c]
      BY <2>3, <3>2 DEF Better
    <3>4. NoWorse(revenue, c) = Better(revenue, b)
      BY <2>3, <3>2, <3>3 DEF NoWorse, Better
    <3>5. hi(c) = lo(b) - 1
      BY <3>4 DEF hi, lo
    <3>6. b \in NoWorse(revenue, b) /\ b \notin Better(revenue, b)
      BY <2>3 DEF NoWorse, Better
    <3>7. Better(revenue, b) \subseteq NoWorse(revenue, b)
      BY DEF NoWorse, Better
    <3>8. lo(b) <= hi(b)
      <4>1. Cardinality(Better(revenue, b)) < Cardinality(NoWorse(revenue, b))
        BY <1>1, <2>3, <3>6, <3>7, Smaller
      <4>2. Cardinality(Better(revenue, b)) \in Nat /\ Cardinality(NoWorse(revenue, b)) \in Nat
        BY <1>1, <2>3 DEF lo
      <4> QED  BY <4>1, <4>2 DEF lo, hi
    <3>9. hi(c) < k
      BY <1>1, <2>2, <2>3, <3>3, <3>5, <3>8
    <3>10. k \in lo(b)..hi(b)
      BY <1>1, <2>3, <3>5, <3>9
    <3> QED  BY <1>2, <2>3, <3>10
  <2> QED  BY <2>4, <2>5
<1> QED  BY <1>4, <1>5, <1>6

-----------------------------------------------------------------------------
(* Averages.                                                                *)

Totals(I) == { shift[s].total : s \in I }
Best(I) == Max({0} \cup Totals(I))
Worst(I) == Min(Totals(I))

\* Sums of journals of I are between as many times its worst and its best.
LEMMA SumBetween ==
    ASSUME NEW I, IsDrawn(I), I # {}, NEW K, K \subseteq I
    PROVE  /\ Worst(I) * Cardinality(K) <= Revenue(K)
           /\ Revenue(K) <= Best(I) * Cardinality(K)
<1>1. IsFiniteSet(Totals(I)) /\ Totals(I) \subseteq Nat /\ Totals(I) # {}
  <2> DEFINE f == [s \in I |-> shift[s].total]
  <2>1. f \in Surjection(I, Totals(I))
    BY DEF Surjection, Totals
  <2>2. IsFiniteSet(Totals(I))
    BY <2>1, FS_Surjection DEF IsDrawn
  <2>3. Totals(I) \subseteq Nat
    BY DEF IsDrawn, Totals
  <2>4. Totals(I) # {}
    BY DEF Totals
  <2> QED  BY <2>2, <2>3, <2>4
<1>2. Worst(I) \in Nat /\ \A y \in Totals(I) : Worst(I) <= y
  <2>1. Totals(I) \subseteq Int
    BY <1>1
  <2> QED  BY <1>1, <2>1, Extremes DEF Worst
<1>3. Best(I) \in Nat /\ \A y \in Totals(I) : y <= Best(I)
  <2> DEFINE T == {0} \cup Totals(I)
  <2>1. IsFiniteSet(T)
    BY <1>1, FS_Singleton, FS_Union
  <2>2. T \subseteq Int /\ T # {} /\ T \subseteq Nat
    BY <1>1
  <2> HIDE DEF T
  <2>3. Max(T) \in T /\ \A y \in T : Max(T) >= y
    BY <2>1, <2>2, Extremes
  <2>4. Max(T) \in Nat /\ \A y \in T : y <= Max(T)
    BY <2>2, <2>3
  <2> QED  BY <2>4 DEF T, Best
<1> DEFINE f == [s \in K |-> shift[s].total]
<1>4. IsTable(f) /\ DOMAIN f = K /\ Revenue(K) = CoinSum(f)
  BY PartIsDrawn, DrawnTables DEF Revenue
<1>5. \A s \in DOMAIN f : Worst(I) <= f[s] /\ f[s] <= Best(I)
  <2>1. \A s \in K : f[s] \in Totals(I)
    BY DEF Totals
  <2> HIDE DEF f
  <2> QED  BY <1>2, <1>3, <1>4, <2>1
<1> HIDE DEF f
<1> QED  BY <1>2, <1>3, <1>4, <1>5, CoinsBetween

\* Of the journals of one branch, the n newest are n.
LEMMA NewestAreMany ==
    ASSUME AnalyticsAssumption, NEW I, IsDrawn(I), NEW b, \A s \in I : s[1] = b,
           NEW n \in 1..Cardinality(I)
    PROVE  Newest(I, n) \subseteq I /\ Cardinality(Newest(I, n)) = n
<1> DEFINE newer(s) == { t \in I : t[2] > s[2] }
           rank == [s \in I |-> Cardinality(newer(s))]
           N == Cardinality(I)
<1>0. IsFiniteSet(I) /\ N \in Nat
  BY FS_CardinalityType DEF IsDrawn
<1>1. \A s \in I : s[2] \in Int /\ s = <<b, s[2]>>
  <2> SUFFICES ASSUME NEW s \in I PROVE s[2] \in Int /\ s = <<b, s[2]>>
    OBVIOUS
  <2>1. s \in Branch \X Day /\ s[1] = b
    BY DEF IsDrawn
  <2>2. s[2] \in Day /\ s = <<s[1], s[2]>>
    BY <2>1
  <2>3. Day \subseteq Int
    BY DEF AnalyticsAssumption
  <2> QED  BY <2>1, <2>2, <2>3
<1>2. \A s \in I : newer(s) \subseteq I /\ s \notin newer(s)
  BY <1>1
<1>3. \A s, t \in I : s[2] < t[2] =>
          newer(t) \subseteq newer(s) /\ t \in newer(s) /\ t \notin newer(t)
  <2> SUFFICES ASSUME NEW s \in I, NEW t \in I, s[2] < t[2]
               PROVE  newer(t) \subseteq newer(s) /\ t \in newer(s) /\ t \notin newer(t)
    OBVIOUS
  <2>1. \A u \in I : u[2] > t[2] => u[2] > s[2]
    BY <1>1
  <2>2. t[2] > s[2]
    BY <1>1
  <2> QED  BY <1>2, <2>1, <2>2
<1>4. \A s \in I : rank[s] = Cardinality(newer(s))
  OBVIOUS
<1>5. Newest(I, n) = { s \in I : rank[s] < n }
  <2>1. n > 0
    BY <1>0
  <2> QED  BY <2>1 DEF Newest
<1>6. DOMAIN rank = I /\ rank = [s \in I |-> rank[s]]
  OBVIOUS
<1> HIDE DEF newer, rank
<1>7. \A s \in I : rank[s] \in 0..(N - 1)
  <2> SUFFICES ASSUME NEW s \in I PROVE rank[s] \in 0..(N - 1)
    OBVIOUS
  <2>1. newer(s) \subseteq I /\ newer(s) # I
    BY <1>2
  <2>2. Cardinality(newer(s)) \in Nat /\ Cardinality(newer(s)) < N
    BY <1>0, <2>1, Smaller
  <2> QED  BY <1>0, <1>4, <2>2
<1>8. \A s, t \in I : s[2] < t[2] => rank[t] < rank[s]
  <2> SUFFICES ASSUME NEW s \in I, NEW t \in I, s[2] < t[2] PROVE rank[t] < rank[s]
    OBVIOUS
  <2>1. IsFiniteSet(newer(s))
    BY <1>0, <1>2, FS_Subset
  <2>2. newer(t) \subseteq newer(s) /\ newer(t) # newer(s)
    BY <1>3
  <2>3. Cardinality(newer(t)) < Cardinality(newer(s))
    BY <2>1, <2>2, Smaller
  <2> QED  BY <1>4, <2>3
<1>9. \A s, t \in I : rank[s] = rank[t] => s = t
  <2> SUFFICES ASSUME NEW s \in I, NEW t \in I, rank[s] = rank[t], s # t PROVE FALSE
    OBVIOUS
  <2>1. s[2] # t[2]
    BY <1>1
  <2>2. s[2] < t[2] \/ t[2] < s[2]
    BY <1>1, <2>1
  <2>3. rank[s] \in Int /\ rank[t] \in Int
    BY <1>7
  <2>4. rank[t] < rank[s] \/ rank[s] < rank[t]
    BY <1>8, <2>2
  <2> QED  BY <2>3, <2>4
<1>10. rank \in Injection(I, 0..(N - 1))
  <2>1. rank \in [I -> 0..(N - 1)]
    BY <1>6, <1>7
  <2> QED  BY <1>9, <2>1, Fun_IsInj
<1>11. IsFiniteSet(0..(N - 1)) /\ Cardinality(0..(N - 1)) = N
  <2>1. /\ IsFiniteSet(0..(N - 1))
        /\ Cardinality(0..(N - 1)) = IF 0 > N - 1 THEN 0 ELSE N - 1 - 0 + 1
    <3>1. 0 \in Int /\ N - 1 \in Int
      BY <1>0
    <3> QED  BY <3>1, FS_Interval
  <2> QED  BY <1>0, <2>1
<1>12. rank \in Surjection(I, 0..(N - 1))
  BY <1>10, <1>11, FS_Injection
<1>13. \A k \in 0..(N - 1) : \E s \in I : rank[s] = k
  BY <1>12 DEF Surjection
<1> DEFINE first == Newest(I, n)
           place == [s \in first |-> rank[s]]
<1>14. IsFiniteSet(first) /\ first \subseteq I
  BY <1>0, <1>5, FS_Subset
<1>15. \A s : s \in first <=> s \in I /\ rank[s] < n
  BY <1>5
<1> HIDE DEF first
<1>16. place \in Bijection(first, 0..(n - 1))
  <2>1. \A s \in first : rank[s] \in 0..(n - 1)
    BY <1>0, <1>7, <1>15
  <2>2. place \in [first -> 0..(n - 1)]
    BY <2>1
  <2>3. \A s, t \in first : place[s] = place[t] => s = t
    BY <1>9, <1>14
  <2>4. \A k \in 0..(n - 1) : \E s \in first : place[s] = k
    <3> SUFFICES ASSUME NEW k \in 0..(n - 1) PROVE \E s \in first : place[s] = k
      OBVIOUS
    <3>1. k \in 0..(N - 1) /\ k < n
      BY <1>0
    <3>2. PICK s \in I : rank[s] = k
      BY <1>13, <3>1
    <3> QED  BY <1>15, <3>1, <3>2
  <2> HIDE DEF place
  <2> QED  BY <2>2, <2>3, <2>4, Fun_IsBij
<1>17. Cardinality(0..(n - 1)) = Cardinality(first)
  BY <1>14, <1>16, FS_Bijection DEF ExistsBijection
<1>18. Cardinality(0..(n - 1)) = n
  <2>1. Cardinality(0..(n - 1)) = IF 0 > n - 1 THEN 0 ELSE n - 1 - 0 + 1
    BY <1>0, FS_Interval
  <2> QED  BY <1>0, <2>1
<1> QED  BY <1>14, <1>17, <1>18 DEF first

\* The newest half of the journals of a branch is newer than the rest.
LEMMA NewestAreNewer ==
    ASSUME AnalyticsAssumption, NEW I, IsDrawn(I), NEW n \in Nat \ {0},
           NEW s \in Newest(I, n), NEW t \in I \ Newest(I, n)
    PROVE  t[2] < s[2]
<1> DEFINE newer(x) == { y \in I : y[2] > x[2] }
<1>1. s \in I /\ s[2] \in Int /\ t[2] \in Int /\ \A y \in I : y[2] \in Int
  <2>1. \A y \in I : y[2] \in Day
    BY DEF IsDrawn
  <2>2. s \in I /\ Day \subseteq Int
    BY DEF Newest, AnalyticsAssumption
  <2> QED  BY <2>1, <2>2
<1>2. \A x \in I : IsFiniteSet(newer(x)) /\ Cardinality(newer(x)) \in Nat
  <2>1. \A x \in I : newer(x) \subseteq I
    OBVIOUS
  <2> HIDE DEF newer
  <2> QED  BY <2>1, FS_Subset, FS_CardinalityType DEF IsDrawn
<1>3. Cardinality(newer(s)) < n /\ ~ (Cardinality(newer(t)) < n)
  BY <1>1 DEF Newest
<1>4. ASSUME t[2] >= s[2] PROVE FALSE
  <2>1. newer(t) \subseteq newer(s)
    BY <1>1, <1>4
  <2> HIDE DEF newer
  <2>2. Cardinality(newer(t)) <= Cardinality(newer(s))
    BY <1>1, <1>2, <2>1, FS_Subset
  <2> QED  BY <1>1, <1>2, <1>3, <2>2
<1> QED  BY <1>1, <1>4

\* Sums of journals are between as many times any bounds of their totals.
LEMMA SumWithin ==
    ASSUME NEW I, IsDrawn(I), NEW K, K \subseteq I, NEW lo \in Nat, NEW hi \in Nat,
           \A s \in K : lo <= shift[s].total /\ shift[s].total <= hi
    PROVE  /\ lo * Cardinality(K) <= Revenue(K)
           /\ Revenue(K) <= hi * Cardinality(K)
<1> DEFINE f == [s \in K |-> shift[s].total]
<1>1. IsTable(f) /\ DOMAIN f = K /\ Revenue(K) = CoinSum(f)
  BY PartIsDrawn, DrawnTables DEF Revenue
<1>2. \A s \in DOMAIN f : lo <= f[s] /\ f[s] <= hi
  OBVIOUS
<1> HIDE DEF f
<1> QED  BY <1>1, <1>2, CoinsBetween

\* The growth rate is what the older half has more than the newer one: if no total
\* of the one is below one of the other, nor is its sum in proportion.
LEMMA Proportion ==
    ASSUME NEW x \in Nat, NEW y \in Nat, NEW m \in Nat, NEW k \in Nat, NEW bound \in Nat,
           x <= bound * m, bound * k <= y
    PROVE  x * k <= y * m
<1>0. ASSUME NEW less \in Nat, NEW more \in Nat, NEW times \in Nat, less <= more
      PROVE  less * times <= more * times
  <2>1. PICK d \in Nat : more = less + d
    <3>1. more - less \in Nat /\ more = less + (more - less)
      BY <1>0
    <3> QED  BY <3>1
  <2>2. (less + d) * times = less * times + d * times
    OBVIOUS
  <2>3. d * times \in Nat /\ less * times \in Nat
    OBVIOUS
  <2> QED  BY <2>1, <2>2, <2>3
<1>1. x * k <= (bound * m) * k
  <2>1. bound * m \in Nat
    OBVIOUS
  <2> QED  BY <1>0, <2>1
<1>2. (bound * k) * m <= y * m
  <2>1. bound * k \in Nat
    OBVIOUS
  <2> QED  BY <1>0, <2>1
<1>3. (bound * m) * k = (bound * k) * m
  OBVIOUS
<1> QED  BY <1>1, <1>2, <1>3

LEMMA GrowthIsBackwards ==
    ASSUME AnalyticsAssumption, NEW I, IsDrawn(I), NEW b, \A s \in I : s[1] = b
    PROVE  /\ NeverFell(I) => Growth(I).sum <= 0
           /\ NeverRose(I) => Growth(I).sum >= 0
<1> DEFINE mid == Cardinality(I) \div 2
           first == Newest(I, mid)
           older == I \ first
           rest == Cardinality(I) - mid
<1>0. /\ IsFiniteSet(I) /\ Cardinality(I) \in Nat /\ mid \in Nat /\ rest \in Nat
      /\ mid <= Cardinality(I)
  BY FS_CardinalityType DEF IsDrawn
<1>1. \A sum, count : Mean(sum, count).sum = sum
  BY DEF Mean
<1>2. CASE ~ (mid > 0 /\ Revenue(first) > 0)
  <2>1. Growth(I) = Mean(0, 1)
    BY <1>2 DEF Growth
  <2> QED  BY <1>1, <2>1
<1>3. CASE mid > 0 /\ Revenue(first) > 0
  <2>1. Growth(I).sum = Revenue(older) * mid - Revenue(first) * rest
    BY <1>1, <1>3 DEF Growth
  <2> HIDE DEF mid
  <2>0. mid \in 1..Cardinality(I)
    BY <1>0, <1>3
  <2>2. first \subseteq I /\ Cardinality(first) = mid
    BY <2>0, NewestAreMany
  <2>3. \A s \in first, t \in older : t[2] < s[2]
    BY <1>0, <1>3, NewestAreNewer
  <2> HIDE DEF first
  <2>4. older \subseteq I /\ Cardinality(older) = rest
    <3>1. Cardinality(I \ first) = Cardinality(I) - Cardinality(I \cap first)
      BY <1>0, FS_Difference
    <3>2. I \cap first = first
      BY <2>2
    <3> QED  BY <2>2, <3>1, <3>2
  <2>5. IsFiniteSet(Totals(first)) /\ Totals(first) \subseteq Nat /\ Totals(first) # {}
    <3> DEFINE f == [s \in first |-> shift[s].total]
    <3>1. f \in Surjection(first, Totals(first))
      BY DEF Surjection, Totals
    <3>2. IsFiniteSet(first) /\ IsDrawn(first)
      BY <2>2, PartIsDrawn DEF IsDrawn
    <3>3. IsFiniteSet(Totals(first))
      BY <3>1, <3>2, FS_Surjection
    <3>4. first # {}
      BY <1>3, <2>2, FS_EmptySet
    <3> QED  BY <3>2, <3>3, <3>4 DEF IsDrawn, Totals
  <2> DEFINE lo == Min(Totals(first))
             hi == Max(Totals(first))
  <2>6. /\ lo \in Totals(first) /\ hi \in Totals(first) /\ lo \in Nat /\ hi \in Nat
        /\ \A y \in Totals(first) : lo <= y /\ y <= hi
    <3>1. Totals(first) \subseteq Int
      BY <2>5
    <3> QED  BY <2>5, <3>1, Extremes
  <2> HIDE DEF lo, hi
  <2>7. lo * mid <= Revenue(first) /\ Revenue(first) <= hi * mid
    <3>1. \A s \in first : lo <= shift[s].total /\ shift[s].total <= hi
      BY <2>6 DEF Totals
    <3> QED  BY <2>2, <2>6, <3>1, SumWithin
  <2>8. Revenue(first) \in Nat /\ Revenue(older) \in Nat
    BY <2>2, <2>4, PartIsDrawn, FiguresAreNaturals
  <2>9. PICK low \in first, high \in first : shift[low].total = lo /\ shift[high].total = hi
    BY <2>6 DEF Totals
  <2> HIDE DEF older, rest
  <2>10. ASSUME NeverFell(I)
         PROVE  Growth(I).sum <= 0
    <3>1. \A t \in older : 0 <= shift[t].total /\ shift[t].total <= lo
      BY <2>2, <2>3, <2>4, <2>9, <2>10 DEF NeverFell, IsDrawn
    <3>2. Revenue(older) <= lo * Cardinality(older)
      BY <2>4, <2>6, <3>1, SumWithin
    <3>3. Revenue(older) * mid <= Revenue(first) * rest
      BY <1>0, <2>4, <2>6, <2>7, <2>8, <3>2, Proportion
    <3> QED  BY <1>0, <2>1, <2>8, <3>3
  <2>11. ASSUME NeverRose(I)
         PROVE  Growth(I).sum >= 0
    <3>1. /\ \A t \in older : hi <= shift[t].total
          /\ \A t \in older : shift[t].total \in Nat
      BY <2>2, <2>3, <2>4, <2>9, <2>11 DEF NeverRose, IsDrawn
    <3>2. hi * Cardinality(older) <= Revenue(older)
      <4>1. CASE older = {}
        <5>1. Cardinality(older) = 0
          BY <4>1, FS_EmptySet
        <5> QED  BY <2>6, <2>8, <5>1
      <4>2. CASE older # {}
        <5>1. IsDrawn(older)
          BY <2>4, PartIsDrawn
        <5> DEFINE f == [s \in older |-> shift[s].total]
        <5>2. f \in Surjection(older, Totals(older))
          BY DEF Surjection, Totals
        <5>3. /\ IsFiniteSet(Totals(older)) /\ Totals(older) \subseteq Nat
              /\ Totals(older) \subseteq Int /\ Totals(older) # {}
          BY <3>1, <4>2, <5>1, <5>2, FS_Surjection DEF IsDrawn, Totals
        <5>4. Max(Totals(older)) \in Nat
              /\ \A y \in Totals(older) : y <= Max(Totals(older))
          BY <5>3, Extremes
        <5>5. \A t \in older : hi <= shift[t].total /\ shift[t].total <= Max(Totals(older))
          BY <3>1, <5>4 DEF Totals
        <5> QED  BY <2>4, <2>6, <5>4, <5>5, SumWithin
      <4> QED  BY <4>1, <4>2
    <3>3. Revenue(first) * rest <= Revenue(older) * mid
      BY <1>0, <2>4, <2>6, <2>7, <2>8, <3>2, Proportion
    <3> QED  BY <1>0, <2>1, <2>8, <3>3
  <2> QED  BY <2>10, <2>11
<1> QED  BY <1>2, <1>3

LEMMA BranchesDoAddUp ==
    ASSUME AnalyticsAssumption, NEW J, IsDrawn(J)
    PROVE  BranchesAddUp(J)
<1> DEFINE page == GeneralPage(J)
           revenue == [b \in BranchesOf(J) |-> Revenue(OfBranch(J, b))]
<1>0. \A b \in BranchesOf(J) : /\ IsDrawn(OfBranch(J, b)) /\ OfBranch(J, b) # {}
                               /\ \A s \in OfBranch(J, b) : s[1] = b
  <2>1. \A b : OfBranch(J, b) \subseteq J
    BY DEF OfBranch
  <2>2. \A b \in BranchesOf(J) : OfBranch(J, b) # {} /\ \A s \in OfBranch(J, b) : s[1] = b
    BY DEF OfBranch, BranchesOf
  <2> QED  BY <2>1, <2>2, PartIsDrawn
<1>1. page.cards.revenue = Revenue(J) /\ page.cards.transactions = Operations(J)
  BY GeneralPageIs, BranchesCome
<1>2. page.ranking = Places(revenue)
  <2> DEFINE analytics == calculateBranchAnalytics(J)
  <2>1. /\ DOMAIN analytics = BranchesOf(J)
        /\ \A b \in BranchesOf(J) : analytics[b].revenue = revenue[b]
    BY DEF calculateBranchAnalytics, BranchAnalytics
  <2>2. DOMAIN revenue = BranchesOf(J)
    OBVIOUS
  <2>3. page.ranking = Ranking(analytics)
    BY GeneralPageIs
  <2> HIDE DEF analytics, revenue, page
  <2>4. \A b \in BranchesOf(J) :
            /\ { c \in DOMAIN analytics : analytics[c].revenue > analytics[b].revenue }
                 = Better(revenue, b)
            /\ { c \in DOMAIN analytics : analytics[c].revenue >= analytics[b].revenue }
                 = NoWorse(revenue, b)
    BY <2>1, <2>2 DEF Better, NoWorse
  <2>5. Ranking(analytics) = Places(revenue)
    BY <2>1, <2>2, <2>4 DEF Ranking, Places
  <2> QED  BY <2>3, <2>5
<1>3. DOMAIN revenue = BranchesOf(J) /\ IsFiniteSet(BranchesOf(J))
      /\ \A b \in BranchesOf(J) : revenue[b] \in Nat
  BY <1>0, KeysAreFinite, FiguresAreNaturals
<1>4. page.cards.active = Cardinality(BranchesOf(J))
  BY GeneralPageIs
<1>5. \A b \in BranchesOf(J) : page.branch[b].revenue = revenue[b]
  <2>1. \A b \in BranchesOf(J) : page.branch[b] = Detail(OfBranch(J, b))
    BY GeneralPageIs
  <2> QED  BY <2>1, DetailIs
<1>6. /\ UNION { page.ranking[b] : b \in BranchesOf(J) } = 0..(page.cards.active - 1)
      /\ \A b, c \in BranchesOf(J) : \A i \in page.ranking[b], k \in page.ranking[c] :
            i < k => page.branch[b].revenue >= page.branch[c].revenue
  <2> HIDE DEF page, revenue
  <2>1. /\ UNION { Places(revenue)[b] : b \in BranchesOf(J) }
             = 0..(Cardinality(BranchesOf(J)) - 1)
        /\ \A b, c \in BranchesOf(J) :
              \A i \in Places(revenue)[b], k \in Places(revenue)[c] :
                  i < k => revenue[b] >= revenue[c]
    BY <1>3, PlacesAreTaken
  <2> QED  BY <1>2, <1>4, <1>5, <2>1
<1>7. ASSUME NEW b \in BranchesOf(J)
      PROVE  /\ page.compared[b].worst * page.branch[b].average.count
                   <= page.branch[b].average.sum
             /\ page.branch[b].average.sum
                   <= page.branch[b].best * page.branch[b].average.count
             /\ NeverFell(OfBranch(J, b)) => page.growth[b].sum <= 0
             /\ NeverRose(OfBranch(J, b)) => page.growth[b].sum >= 0
  <2> DEFINE I == OfBranch(J, b)
  <2>1. /\ page.compared[b] = BranchAnalytics(I) /\ page.growth[b] = Growth(I)
        /\ page.branch[b] = Detail(I)
    BY GeneralPageIs
  <2>2. /\ Detail(I).average = Mean(Revenue(I), Cardinality(I))
        /\ Detail(I).best = Best(I) /\ BranchAnalytics(I).worst = Worst(I)
    BY DetailIs DEF Best, Worst, Totals
  <2>3. IsDrawn(I) /\ I # {} /\ \A s \in I : s[1] = b
    BY <1>0
  <2>4. Mean(Revenue(I), Cardinality(I)).sum = Revenue(I)
        /\ Mean(Revenue(I), Cardinality(I)).count = Cardinality(I)
    BY DEF Mean
  <2> HIDE DEF I, page
  <2>5. Worst(I) * Cardinality(I) <= Revenue(I) /\ Revenue(I) <= Best(I) * Cardinality(I)
    BY <2>3, SumBetween
  <2>6. /\ NeverFell(I) => Growth(I).sum <= 0
        /\ NeverRose(I) => Growth(I).sum >= 0
    BY <2>3, GrowthIsBackwards
  <2> QED  BY <2>1, <2>2, <2>4, <2>5, <2>6 DEF I
<1> HIDE DEF page
<1>8. /\ page.cards.revenue = Revenue(J)
      /\ page.cards.transactions = Operations(J)
      /\ UNION { page.ranking[b] : b \in BranchesOf(J) } = 0..(page.cards.active - 1)
      /\ \A b, c \in BranchesOf(J) : \A i \in page.ranking[b], k \in page.ranking[c] :
            i < k => page.branch[b].revenue >= page.branch[c].revenue
      /\ \A b \in BranchesOf(J) :
            LET mean == page.branch[b].average IN
            /\ page.compared[b].worst * mean.count <= mean.sum
            /\ mean.sum <= page.branch[b].best * mean.count
      /\ \A b \in BranchesOf(J) :
            /\ NeverFell(OfBranch(J, b)) => page.growth[b].sum <= 0
            /\ NeverRose(OfBranch(J, b)) => page.growth[b].sum >= 0
  BY <1>1, <1>6, <1>7
<1> QED  BY <1>8 DEF BranchesAddUp, page

-----------------------------------------------------------------------------
(* What the pages read.                                                     *)

LEMMA FetchedAreDrawn ==
    ASSUME AnalyticsAssumption, AnalyticsInv, NEW B, B \subseteq Branch, NEW n
    PROVE  IsDrawn(Fetched(B, n))
<1> DEFINE J == Fetched(B, n)
<1>1. \A s \in J : s \in Worked /\ shift[s].total \in 0..Ceiling
  <2>1. \A b \in B : queryJournals(b, n) \subseteq InRange(b)
    BY DEF queryJournals, Newest
  <2>2. \A b \in B : \A s \in InRange(b) : s \in Worked /\ shift[s].total \in 0..Ceiling
    BY DEF InRange, Worked
  <2> QED  BY <2>1, <2>2 DEF Fetched
<1> HIDE DEF J
<1>2. IsFiniteSet(J)
  BY <1>1, FS_Subset DEF AnalyticsInv
<1>3. J \subseteq Branch \X Day
  BY <1>1 DEF Worked
<1>4. ASSUME NEW s \in J
      PROVE  /\ shift[s].total \in Nat /\ shift[s].operations \in Nat
             /\ shift[s].cash \in Nat
  <2>1. shift[s] # NoShift /\ IsShift(shift[s])
    BY <1>1 DEF AnalyticsInv, Worked
  <2>2. shift[s].cash \in Nat /\ shift[s].operations \in Nat
    BY <2>1 DEF IsShift
  <2>3. shift[s].total \in Nat
    BY <1>1 DEF AnalyticsAssumption
  <2> QED  BY <2>2, <2>3
<1> QED  BY <1>2, <1>3, <1>4 DEF IsDrawn, J

\* Of each branch that can be read a page has what a page of that branch alone has.
LEMMA OneOfMany ==
    ASSUME NEW B, NEW n, NEW b \in B, CanRead(b, n)
    PROVE  /\ OfBranch(Fetched(B, n), b) = queryJournals(b, n)
           /\ OfBranch(Fetched({b}, n), b) = queryJournals(b, n)
<1>1. \A c : \A s \in queryJournals(c, n) : s[1] = c
  <2>1. \A c : queryJournals(c, n) \subseteq InRange(c)
    BY DEF queryJournals, Newest
  <2>2. \A c : \A s \in InRange(c) : s[1] = c
    BY DEF InRange
  <2> QED  BY <2>1, <2>2
<1> QED  BY <1>1 DEF Fetched, OfBranch

\* A branch that is drawn could be read.
LEMMA DrawnIsRead ==
    ASSUME NEW B, NEW n, NEW b \in BranchesOf(Fetched(B, n))
    PROVE  CanRead(b, n)
<1>1. \A c : \A s \in queryJournals(c, n) : s[1] = c
  <2>1. \A c : queryJournals(c, n) \subseteq InRange(c)
    BY DEF queryJournals, Newest
  <2>2. \A c : \A s \in InRange(c) : s[1] = c
    BY DEF InRange
  <2> QED  BY <2>1, <2>2
<1> QED  BY <1>1 DEF BranchesOf, Fetched

LEMMA LatestIsRead ==
    ASSUME AnalyticsAssumption, AnalyticsInv, NEW B, B \subseteq Branch, NEW n \in Int,
           NEW b \in B, InRange(b) # {}, CanRead(b, n)
    PROVE  <<b, Max(DaysOf(InRange(b)))>> \in Fetched(B, n)
<1> DEFINE I == InRange(b)
           m == Max(DaysOf(I))
<1>1. IsFiniteSet(DaysOf(I)) /\ DaysOf(I) \subseteq Int /\ DaysOf(I) # {}
  <2>1. I \subseteq Worked
    BY DEF InRange, Worked
  <2>2. IsFiniteSet(I)
    BY <2>1, FS_Subset DEF AnalyticsInv
  <2> DEFINE day == [s \in I |-> s[2]]
  <2>3. day \in Surjection(I, DaysOf(I))
    BY DEF Surjection, DaysOf
  <2>4. IsFiniteSet(DaysOf(I))
    BY <2>2, <2>3, FS_Surjection
  <2>5. DaysOf(I) \subseteq Int
    <3>1. \A s \in I : s[2] \in Day
      BY DEF InRange
    <3>2. Day \subseteq Int
      BY DEF AnalyticsAssumption
    <3> QED  BY <3>1, <3>2 DEF DaysOf
  <2>6. DaysOf(I) # {}
    BY DEF DaysOf
  <2> QED  BY <2>4, <2>5, <2>6
<1>2. m \in DaysOf(I) /\ \A d \in DaysOf(I) : m >= d
  BY <1>1, Extremes
<1> HIDE DEF m
<1>3. PICK s \in I : s[2] = m
  BY <1>2 DEF DaysOf
<1>4. s = <<b, m>>
  BY <1>3 DEF InRange
<1>5. \A t \in I : ~ (t[2] > m)
  <2>1. \A t \in I : t[2] \in DaysOf(I)
    BY DEF DaysOf
  <2> QED  BY <1>1, <1>2, <2>1
<1>6. { t \in I : t[2] > s[2] } = {}
  BY <1>3, <1>5
<1>7. s \in queryJournals(b, n)
  <2>1. n > 0 => Cardinality({ t \in I : t[2] > s[2] }) < n
    BY <1>6, FS_EmptySet
  <2> QED  BY <2>1 DEF queryJournals, Newest
<1> QED  BY <1>4, <1>7 DEF Fetched, m

\* A comparison reads at least what a page of no more days does.
LEMMA ComparisonHasMore ==
    ASSUME AnalyticsAssumption, AnalyticsInv, NEW B, B \subseteq Branch,
           NEW n \in 1..PeriodSize, \A b \in B : CanRead(b, PeriodSize)
    PROVE  ComparisonPage(Period(B)).total >= Revenue(Fetched(B, n))
<1> DEFINE J == Period(B)
<1>1. IsDrawn(J)
  BY FetchedAreDrawn DEF Period
<1>2. ComparisonPage(J).total = Revenue(J)
  <2>1. /\ DOMAIN calculateDailyMetrics(J) = DaysOf(J)
        /\ \A d \in DaysOf(J) : calculateDailyMetrics(J)[d].revenue = Revenue(OnDay(J, d))
    BY Daily
  <2> HIDE DEF J
  <2>2. ComparisonPage(J).total
          = CoinSum([d \in DaysOf(J) |-> calculateDailyMetrics(J)[d].revenue])
    BY <2>1 DEF ComparisonPage
  <2>3. [d \in DaysOf(J) |-> calculateDailyMetrics(J)[d].revenue]
          = [d \in DaysOf(J) |-> Revenue(OnDay(J, d))]
    BY <2>1
  <2> QED  BY <1>1, <2>2, <2>3, DaysCome
<1>3. Fetched(B, n) \subseteq J
  <2> SUFFICES ASSUME NEW b \in B, NEW s \in queryJournals(b, n)
               PROVE  s \in queryJournals(b, PeriodSize)
    BY DEF Fetched, Period
  <2>1. n \in Nat \ {0} /\ PeriodSize \in Nat \ {0} /\ n <= PeriodSize
    BY DEF AnalyticsAssumption
  <2> DEFINE newer == { t \in InRange(b) : t[2] > s[2] }
  <2>2. IsFiniteSet(newer)
    <3>1. newer \subseteq Worked
      BY DEF InRange, Worked
    <3> QED  BY <3>1, FS_Subset DEF AnalyticsInv
  <2>3. Cardinality(newer) \in Nat
    BY <2>2, FS_CardinalityType
  <2>4. s \in InRange(b) /\ Cardinality(newer) < n
    BY <2>1 DEF queryJournals, Newest
  <2>5. Cardinality(newer) < PeriodSize
    <3> HIDE DEF newer
    <3> QED  BY <2>1, <2>3, <2>4
  <2> QED  BY <2>4, <2>5 DEF queryJournals, Newest
<1>4. Revenue(Fetched(B, n)) <= Revenue(J)
  <2> HIDE DEF J
  <2> QED  BY <1>1, <1>3, MoreIsDrawn
<1>5. Revenue(Fetched(B, n)) \in Nat /\ Revenue(J) \in Nat
  BY <1>1, FetchedAreDrawn, FiguresAreNaturals
<1> QED  BY <1>2, <1>4, <1>5

-----------------------------------------------------------------------------

\* One set of branches and one length.
LEMMA PagesTellOneStory ==
    ASSUME AnalyticsAssumption, AnalyticsInv, NEW B, B \subseteq Branch, NEW n \in Int,
           NEW J, J = Fetched(B, n), J # {}
    PROVE  /\ DaysAddUp(J)
           /\ BranchesAddUp(J)
           /\ \A b \in B \cap BranchesOf(J) :
                 Detail(OfBranch(J, b)) = GeneralPage(Fetched({b}, n)).branch[b]
           /\ CashIsEarned(J) =>
                 CoinSum([d \in DaysOf(J) |-> DaysPage(J).charts.methods[d].sum])
                   = CoinSum([b \in BranchesOf(J) |-> GeneralPage(J).branch[b].cash.sum])
           /\ n \in 1..PeriodSize /\ (\A b \in B : CanRead(b, PeriodSize)) =>
                 ComparisonPage(Period(B)).total >= Revenue(J)
<1>1. IsDrawn(J)
  BY FetchedAreDrawn
<1>2. DaysAddUp(J) /\ BranchesAddUp(J)
  BY <1>1, DaysDoAddUp, BranchesDoAddUp
<1>3. ASSUME NEW b \in B \cap BranchesOf(J)
      PROVE  Detail(OfBranch(J, b)) = GeneralPage(Fetched({b}, n)).branch[b]
  <2>0. CanRead(b, n)
    BY DrawnIsRead
  <2>1. OfBranch(J, b) = OfBranch(Fetched({b}, n), b)
    BY <2>0, OneOfMany
  <2>2. OfBranch(J, b) # {}
    BY DEF OfBranch, BranchesOf
  <2>3. b \in BranchesOf(Fetched({b}, n))
    BY <2>1, <2>2 DEF OfBranch, BranchesOf
  <2>4. GeneralPage(Fetched({b}, n)).branch[b] = Detail(OfBranch(Fetched({b}, n), b))
    BY <2>3, GeneralPageIs
  <2> QED  BY <2>1, <2>4
<1>4. ASSUME CashIsEarned(J)
      PROVE  CoinSum([d \in DaysOf(J) |-> DaysPage(J).charts.methods[d].sum])
               = CoinSum([b \in BranchesOf(J) |-> GeneralPage(J).branch[b].cash.sum])
  <2>1. \A d : OnDay(J, d) \subseteq J
    BY DEF OnDay
  <2>2. \A b : OfBranch(J, b) \subseteq J
    BY DEF OfBranch
  <2>3. [d \in DaysOf(J) |-> DaysPage(J).charts.methods[d].sum]
          = [d \in DaysOf(J) |-> Cash(OnDay(J, d))]
    <3>1. \A d \in DaysOf(J) : DaysPage(J).charts.methods[d]
                                 = Ratio(Cash(OnDay(J, d)), Revenue(OnDay(J, d)))
      BY DaysPageIs
    <3>2. \A d \in DaysOf(J) :
              Ratio(Cash(OnDay(J, d)), Revenue(OnDay(J, d))).sum = Cash(OnDay(J, d))
      BY <1>1, <1>4, <2>1, PartIsDrawn, CashOfRatio DEF CashIsEarned
    <3> QED  BY <3>1, <3>2
  <2>4. [b \in BranchesOf(J) |-> GeneralPage(J).branch[b].cash.sum]
          = [b \in BranchesOf(J) |-> Cash(OfBranch(J, b))]
    <3>1. \A b \in BranchesOf(J) : GeneralPage(J).branch[b] = Detail(OfBranch(J, b))
      BY GeneralPageIs
    <3>2. \A b : Detail(OfBranch(J, b)).cash
                   = Ratio(Cash(OfBranch(J, b)), Revenue(OfBranch(J, b)))
      BY DetailIs
    <3>3. \A b \in BranchesOf(J) :
              Ratio(Cash(OfBranch(J, b)), Revenue(OfBranch(J, b))).sum = Cash(OfBranch(J, b))
      BY <1>1, <1>4, <2>2, PartIsDrawn, CashOfRatio DEF CashIsEarned
    <3> QED  BY <3>1, <3>2, <3>3
  <2>5. /\ CoinSum([d \in DaysOf(J) |-> Cash(OnDay(J, d))]) = Cash(J)
        /\ CoinSum([b \in BranchesOf(J) |-> Cash(OfBranch(J, b))]) = Cash(J)
    BY <1>1, DaysCome, BranchesCome
  <2>6. CoinSum([d \in DaysOf(J) |-> DaysPage(J).charts.methods[d].sum]) = Cash(J)
    BY <2>3, <2>5
  <2>7. CoinSum([b \in BranchesOf(J) |-> GeneralPage(J).branch[b].cash.sum]) = Cash(J)
    BY <2>4, <2>5
  <2> QED  BY <2>6, <2>7
<1>5. n \in 1..PeriodSize /\ (\A b \in B : CanRead(b, PeriodSize)) =>
          ComparisonPage(Period(B)).total >= Revenue(J)
  BY ComparisonHasMore
<1> QED  BY <1>2, <1>3, <1>4, <1>5

\* Whatever shifts of whatever branches, and whenever the process began: the pages
\* draw the same journals to the same sums (RenderGeneralDashboard, RenderDaysDashboard,
\* RenderComparisonDashboard over queryJournals).
THEOREM PagesAgree == AnalyticsSpec => []DashboardsAgree
<1>1. AnalyticsInv /\ [AnalyticsNext]_analyticsVars => AnalyticsInv'
  BY AnalyticsStep, AnalyticsAssumption
<1>2. AnalyticsInv => DashboardsAgree
  <2> SUFFICES ASSUME AnalyticsInv, NEW n \in Length, NEW B \in Selection
               PROVE  /\ \A b \in B : InRange(b) # {} /\ CanRead(b, n) =>
                             <<b, Max(DaysOf(InRange(b)))>> \in Fetched(B, n)
                      /\ Fetched(B, n) # {} =>
                            /\ DaysAddUp(Fetched(B, n))
                            /\ BranchesAddUp(Fetched(B, n))
                            /\ \A b \in B \cap BranchesOf(Fetched(B, n)) :
                                  Detail(OfBranch(Fetched(B, n), b))
                                    = GeneralPage(Fetched({b}, n)).branch[b]
                            /\ CashIsEarned(Fetched(B, n)) =>
                                  CoinSum([d \in DaysOf(Fetched(B, n)) |->
                                             DaysPage(Fetched(B, n)).charts.methods[d].sum])
                                    = CoinSum([b \in BranchesOf(Fetched(B, n)) |->
                                             GeneralPage(Fetched(B, n)).branch[b].cash.sum])
                            /\ n \in 1..PeriodSize
                                 /\ (\A b \in B : CanRead(b, PeriodSize)) =>
                                  ComparisonPage(Period(B)).total >= Revenue(Fetched(B, n))
    BY DEF DashboardsAgree
  <2>1. B \subseteq Branch /\ n \in Int
    BY AnalyticsAssumption DEF AnalyticsAssumption, AnalyticsInv, Selection
  <2>2. \A b \in B : InRange(b) # {} /\ CanRead(b, n) =>
            <<b, Max(DaysOf(InRange(b)))>> \in Fetched(B, n)
    BY <2>1, LatestIsRead, AnalyticsAssumption
  <2> PICK J : J = Fetched(B, n)
    OBVIOUS
  <2> QED  BY <2>1, <2>2, PagesTellOneStory, AnalyticsAssumption
<1> QED  BY <1>1, <1>2, AnalyticsBegins, PTL DEF AnalyticsSpec
=============================================================================
