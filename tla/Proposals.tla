----------------------------- MODULE Proposals -----------------------------
(***************************************************************************)
(* Proposals of goods to order, each with at most one picture: the row is  *)
(* in PostgreSQL and the picture in a directory of the server              *)
(* (pkg/controllers/arrivals, pkg/repository/arrivals).  Nothing makes the *)
(* two one transaction: an upload or a deletion is a statement, a system   *)
(* call, another statement, and may stop between any two.                  *)
(*                                                                         *)
(* Abstractions.  A picture is identified by the name it was uploaded      *)
(* under, its file by the proposal and that name.  Names, dates and pages  *)
(* are left out: an id that a client sends is one it was given.            *)
(***************************************************************************)
EXTENDS Handlers

CONSTANTS
    Proposal, Picture, NoPicture,   \* proposals; file names, and none
    Shop, OtherShop                 \* valid branches; what an edit may write too

ASSUME ProposalsAssumption ==
    /\ NoPicture \notin Picture
    /\ Shop # {} /\ OtherShop \notin Shop

VARIABLES
    proposal,   \* the rows
    files,      \* the files that are there, by proposal
    errand,     \* uploads and deletions in flight
    shaky       \* history: proposals of which an upload or a deletion
                \* overlapped another one, stopped half-way, or failed to
                \* remove a file

proposalVars == <<proposal, files, errand, shaky>>

NoProposal == [state |-> "none", branch |-> OtherShop, fulfilled |-> FALSE,
               image |-> NoPicture]
GoneProposal == [NoProposal EXCEPT !.state = "gone"]
ProposalRow == [state: {"there"}, branch: Shop \cup {OtherShop},
                fulfilled: BOOLEAN, image: Picture \cup {NoPicture}]

Exists(p) == proposal[p].state = "there"

\* Stages of an upload: its row is read, the old picture is removed, the new one
\* is saved; and of a deletion: its row is read, and deleted.
ErrandTask ==
    [stage: {"read", "cleared", "saved", "found", "deleted"}, proposal: Proposal,
     new: Picture \cup {NoPicture}, old: Picture \cup {NoPicture}]

ProposalsTypeOK ==
    /\ proposal \in [Proposal -> ProposalRow \cup {NoProposal, GoneProposal}]
    /\ files \in [Proposal -> SUBSET Picture]
    /\ errand \in [Request -> ErrandTask \cup {Idle}]
    /\ shaky \subseteq Proposal

ProposalsInit ==
    /\ proposal = [p \in Proposal |-> NoProposal]
    /\ files = [p \in Proposal |-> {}]
    /\ errand = [r \in Request |-> Idle]
    /\ shaky = {}

At(r, stage) == errand[r] # Idle /\ errand[r].stage = stage
Goes(r, stage) == errand' = [errand EXCEPT ![r].stage = stage]

checkBranch(branch) == branch \in Shop

\* One transaction: all the names, or none.
CreateMany(P, branch) ==
    [p \in Proposal |-> IF p \in P THEN [state |-> "there", branch |-> branch,
                                        fulfilled |-> FALSE, image |-> NoPicture]
                       ELSE proposal[p]]

NewProposals(P, branch) ==
    /\ P # {} /\ \A p \in P : proposal[p] = NoProposal
    /\ checkBranch(branch)
    /\ proposal' = CreateMany(P, branch)
    /\ UNCHANGED <<files, errand, shaky>>

\* Update: by id, the fields that are sent; one that is not keeps its value.  The
\* image is not among them.
UpdateRow(p, branch, fulfilled) ==
    [proposal EXCEPT ![p].branch = branch, ![p].fulfilled = fulfilled]

\* Any branch; no row is no error.
EditProposal(p, branch, fulfilled) ==
    /\ Exists(p)
    /\ proposal' = UpdateRow(p, branch, fulfilled)
    /\ UNCHANGED <<files, errand, shaky>>

\* Those of the ids that are of the branch.
Fulfilled(P, branch) ==
    [p \in Proposal |-> IF p \in P /\ Exists(p) /\ proposal[p].branch = branch
                       THEN [proposal[p] EXCEPT !.fulfilled = TRUE]
                       ELSE proposal[p]]

Fulfill(P, branch) ==
    /\ checkBranch(branch)
    /\ proposal' = Fulfilled(P, branch)
    /\ UNCHANGED <<files, errand, shaky>>

\* FindUnfulfilled, of every branch; and GeneratePDF, the goods to order with their
\* pictures.
FindUnfulfilled == { p \in Proposal : Exists(p) /\ ~ proposal[p].fulfilled }
GeneratePDF ==
    { [proposal |-> p, picture |-> proposal[p].image] : p \in FindUnfulfilled }

\* GetByID: the row as it is, for an upload or for a deletion.  A proposal that
\* is busy already is in doubt from now on.
Busy(p) == \E r \in Request : errand[r] # Idle /\ errand[r].proposal = p
BeginErrand(r, stage, p, new) ==
    /\ errand[r] = Idle
    /\ Exists(p)
    /\ errand' = [errand EXCEPT ![r] = [stage |-> stage, proposal |-> p,
                                        new |-> new, old |-> proposal[p].image]]
    /\ shaky' = IF Busy(p) THEN shaky \cup {p} ELSE shaky
    /\ UNCHANGED <<proposal, files>>

BeginUpload(r, p, new) == BeginErrand(r, "read", p, new)
BeginDeleteProposal(r, p) == BeginErrand(r, "found", p, NoPicture)

\* os.Stat and os.Remove; that the file could not be removed is only logged.
RemoveFile(r, next) ==
    LET p == errand[r].proposal IN
    /\ next
    /\ \/ /\ files' = [files EXCEPT ![p] = @ \ {errand[r].old}]
          /\ UNCHANGED shaky
       \/ /\ errand[r].old \in files[p]
          /\ shaky' = shaky \cup {p}
          /\ UNCHANGED files
    /\ UNCHANGED proposal

RemoveOldPicture(r) ==
    At(r, "read") /\ RemoveFile(r, Goes(r, "cleared"))

\* Mutant: the old picture is removed after the new one has been saved.
SaveThenRemove(r) ==
    /\ At(r, "cleared")
    /\ files' = [files EXCEPT ![errand[r].proposal] =
                   (@ \cup {errand[r].new}) \ {errand[r].old}]
    /\ Goes(r, "saved")
    /\ UNCHANGED <<proposal, shaky>>
SavePicture(r) ==
    /\ At(r, "cleared")
    /\ files' = [files EXCEPT ![errand[r].proposal] = @ \cup {errand[r].new}]
    /\ Goes(r, "saved")
    /\ UNCHANGED <<proposal, shaky>>

\* By id; a row that is gone is no error.
SetImageFile(r) ==
    LET p == errand[r].proposal IN
    /\ At(r, "saved")
    /\ proposal' = IF Exists(p) THEN [proposal EXCEPT ![p].image = errand[r].new]
                   ELSE proposal
    /\ errand' = Answered(errand, r)
    /\ UNCHANGED <<files, shaky>>

DeleteRow(r) ==
    LET p == errand[r].proposal IN
    /\ At(r, "found")
    /\ Exists(p)
    /\ proposal' = [proposal EXCEPT ![p] = GoneProposal]
    /\ Goes(r, "deleted")
    /\ UNCHANGED <<files, shaky>>

RemovePicture(r) ==
    At(r, "deleted") /\ RemoveFile(r, errand' = Answered(errand, r))

\* The file cannot be saved, a statement fails, the server stops: what is done
\* stays done.
DropErrand(r) ==
    /\ errand[r] # Idle
    /\ errand' = Answered(errand, r)
    /\ shaky' = IF errand[r].stage \in {"read", "found"} THEN shaky
                ELSE shaky \cup {errand[r].proposal}
    /\ UNCHANGED <<proposal, files>>

ProposalsNext ==
    \/ \E P \in SUBSET Proposal, b \in Shop : NewProposals(P, b) \/ Fulfill(P, b)
    \/ \E p \in Proposal, b \in Shop \cup {OtherShop}, f \in BOOLEAN :
          EditProposal(p, b, f)
    \/ \E r \in Request, p \in Proposal, x \in Picture : BeginUpload(r, p, x)
    \/ \E r \in Request, p \in Proposal : BeginDeleteProposal(r, p)
    \/ \E r \in Request :
          \/ RemoveOldPicture(r) \/ SavePicture(r) \/ SetImageFile(r)
          \/ DeleteRow(r) \/ RemovePicture(r) \/ DropErrand(r)

ProposalsSpec == ProposalsInit /\ [][ProposalsNext]_proposalVars

-----------------------------------------------------------------------------

\* Rows and pictures agree: a proposal whose uploads and deletions ran to their
\* end, one after the other, has exactly the file that its row names, none if it
\* names none or is deleted -- also when a picture is replaced by one of the same
\* name, and whatever is edited or fulfilled meanwhile; so no picture on the list
\* of goods to order is missing.
PicturesMatchRows ==
    /\ \A p \in Proposal \ shaky :
          ~ Busy(p) => files[p] = {proposal[p].image} \ {NoPicture}
    /\ \A entry \in GeneratePDF :
          \/ entry.proposal \in shaky \/ Busy(entry.proposal)
          \/ entry.picture \in files[entry.proposal] \cup {NoPicture}
=============================================================================
