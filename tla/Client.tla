------------------------------- MODULE Client -------------------------------
(***************************************************************************)
(* What the application offers a person and what it lets through: the      *)
(* pages of packages/client/src/features and the operations of             *)
(* app/store.ts, which check by their own conditions, in the Pool they     *)
(* show, what the reducer of module Pool checks again by its own.          *)
(*                                                                         *)
(* An operation publishes one event, whose time is the present: here that  *)
(* of the latest event.  Takes... of Pool is the reducer's verdict on it.  *)
(***************************************************************************)
EXTENDS Pool

Now == pool.maxEventTimestamp

\* What the Community page keeps to members in good standing.
InGoodStanding(me) == IsMember(me) /\ me \notin pool.frozen

-----------------------------------------------------------------------------
(* Admission.                                                              *)

\* The invite card and the checks of store.invite.
OffersInviteOnBalance(me, s) == \* mutant
  LET lien == RequiredVouchLien(pool, me)
  IN  /\ InGoodStanding(me)
      /\ Cardinality(Members(pool)) < SOFT_CELL_CAP
      /\ s # me
      /\ lien > 0 /\ lien <= pool.balances[me]
OffersInvite(me, s) ==
  LET lien == RequiredVouchLien(pool, me)
  IN  /\ InGoodStanding(me)
      /\ Cardinality(Members(pool)) < SOFT_CELL_CAP
      /\ s # me
      /\ lien > 0 /\ lien <= AvailableToPledge(pool, me)

\* The list of people waiting to join.
OffersCancel(me, s) == InGoodStanding(me) /\ pool.pendingInvites[s].inviter = me

\* Step 4 of the card of somebody waiting to join.
OffersAccept(me) ==
  /\ ~ IsMember(me)
  /\ pool.pendingInvites[me].admissionApproved
  /\ pool.proposals[AdmissionProposalId(me)] # NoProposal

-----------------------------------------------------------------------------
(* Transfers.                                                              *)

OffersTransfer(me, to, amount) ==
  /\ InGoodStanding(me)
  /\ IsMember(to) /\ to # me
  /\ amount <= pool.balances[me]

-----------------------------------------------------------------------------
(* The sliders of the Governance page, for members, frozen or not.         *)

OffersRules(me) == IsMember(me) /\ Cardinality(Members(pool)) > 1
OffersShare(me, target) == IsMember(me) /\ IsMember(target)
OffersVouch(me, target) == OffersShare(me, target) /\ target # me

-----------------------------------------------------------------------------
(* Proposals.                                                              *)

\* The form of the Proposals page, for members, frozen or not.
OffersForm(me, motion) ==
  /\ IsMember(me)
  /\ \/ /\ motion.kind \in {"expel_member", "resolve_fracture"}
        /\ IsMember(motion.target)
     \/ motion.kind \in {"join_superstructure", "leave_superstructure", "link_subcell"}

\* The cards of linked chapters on the Community page, which anybody sees.
OffersChapterLink(motion) == motion.kind \in {"join_superstructure", "link_subcell"}
\* The amount only has to be there: neither the card nor the store parses it.
OffersBridgeTransfer(me, motion) ==
  /\ motion.kind = "bridge_transfer" /\ motion.to # None
  /\ Linked(pool) # {}
  /\ me \in pool.bridges \/ me = pool.head

OffersMotion(me, motion) ==
  OffersForm(me, motion) \/ OffersChapterLink(motion) \/ OffersBridgeTransfer(me, motion)

\* The list of the Proposals page.
OffersBallot(me, id) == IsMember(me) /\ IsOpen(id)
OffersClose(me, id) == OffersBallot(me, id) /\ me = pool.head

-----------------------------------------------------------------------------
(* Properties.                                                             *)

InviteFits ==
  \A me \in Soul, s \in Invitees :
    OffersInvite(me, s) =>
      (TakesInvite(me, Now, s)
         <=> ~ IsMember(s) /\ PriorInviter(pool, s) \in {None, me})

CancelFits ==
  \A me \in Soul, s \in Invitees :
    OffersCancel(me, s) => TakesCancelInvite(me, Now, s)

AcceptFits ==
  \A me \in Soul :
    OffersAccept(me) =>
      (TakesAcceptInvite(me, Now, pool.pendingInvites[me].inviter)
         <=> Cardinality(Members(pool)) < SOFT_CELL_CAP)

\* What the store waits for is that the recipient has more than before.
TransferFits ==
  \A me, to \in Soul, amount \in Amounts :
    OffersTransfer(me, to, amount) =>
      LET paid == TransferPoints(pool, me, to, amount)
      IN  /\ TakesTransaction(me, Now, to)
          /\ paid.balances[to] > pool.balances[to]
          /\ paid.frozen = pool.frozen

SlidersFit ==
  \A me \in Soul :
    /\ OffersRules(me) => (TakesSliderUpdate(me, Now) <=> me \notin pool.frozen)
    /\ \A target \in Soul :
         /\ OffersShare(me, target) => (TakesSliderUpdate(me, Now) <=> me \notin pool.frozen)
         /\ OffersVouch(me, target) =>
              (TakesVouchUpdate(me, Now, target) <=> me \notin pool.frozen)

ProposalsFit ==
  \A me \in Soul :
    /\ \A motion \in Motions :
         OffersMotion(me, motion) =>
           (TakesProposalCreate(me, Now, motion)
              <=> /\ InGoodStanding(me)
                  /\ motion.kind = "bridge_transfer" =>
                       motion.target \in Linked(pool) /\ motion.amount > 0)
    /\ \A id \in ProposalId :
         /\ OffersBallot(me, id) => (TakesProposalVote(me, Now, id) <=> me \notin pool.frozen)
         /\ OffersClose(me, id) => (TakesProposalClose(me, Now, id) <=> me \notin pool.frozen)

\* What the application offers and lets through the reducer accepts, in the
\* Pool it is offered in, and a transfer neither fails nor freezes its author.
\* Refused is exactly this: a join code that is a member's already or that
\* somebody else vouched for; an approved guest of a community that filled up
\* meanwhile; everything a frozen member does on the Governance and Proposals
\* pages; a transfer to a community that is not linked, or of what is not an
\* amount; and what somebody who is no member proposes on the cards everybody
\* sees.  (CellView.tsx, GovernanceView.tsx, ProposalsView.tsx and store.ts repeat
\* by hand the guards of reduceOneSync.)
OfferedIsAccepted ==
  pool.eventCount < MaxEvents =>
    InviteFits /\ CancelFits /\ AcceptFits /\ TransferFits /\ SlidersFit /\ ProposalsFit
=============================================================================
