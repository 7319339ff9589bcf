------------------------------ MODULE Governance ------------------------------
(***************************************************************************)
(* The governance contract src/governance/lib.rs: proposals are decided by *)
(* quadratic voting, n votes costing n * n voting credits, over a quorum   *)
(* that follows the credits issued.  Shares of the credits are in tenths   *)
(* where the code has basis points.  The token's snapshot balance is taken *)
(* to be enough: a vote it refuses changes nothing.                        *)
(***************************************************************************)
EXTENDS Soroban, Sequences, FiniteSetsExt

CONSTANTS
    DefaultCredits, \* DEFAULT_VOTING_CREDITS, of whom was never allocated any
    DefaultQuorum,  \* DEFAULT_MIN_QUORUM_BPS
    Quorums,        \* the quorums that the admin sets
    Periods,        \* the voting periods between MIN_ and MAX_TIMELOCK
    Votes,          \* how many votes are cast at once
    MaxIssued,      \* bound on the credits that are issued
    MaxProposals    \* bound on the ids that are given out

Unset == -1

NoVote == [votes |-> 0, support |-> FALSE]

Proposal == [creator : Addresses, votesFor : Nat, votesAgainst : Nat,
             totalCost : Nat, voters : Nat, deadline : Nat, quorum : Nat,
             status : {"OPEN", "CLOSED", "EXECUTED", "CANCELLED"},
             userVotes : [Addresses -> [votes : Nat, support : BOOLEAN]]]

\* history.given is the credits each address was ever given, .early how many ids
\* were given out before initialize.
TypeOK ==
    /\ store \in [admin : Somebody, pendingAdmin : Somebody,
                  counter : Nat, proposals : Seq(Proposal),
                  credits : [Addresses -> Int], totalIssued : Nat, minQuorum : Nat]
    /\ history \in [given : [Addresses -> Nat], early : Nat] /\ now \in Nat

Init ==
    /\ Deployed("governance")
    /\ store = [admin |-> Nobody, pendingAdmin |-> Nobody, counter |-> 0,
                proposals |-> <<>>, credits |-> [a \in Addresses |-> Unset],
                totalIssued |-> 0, minQuorum |-> DefaultQuorum]
    /\ history = [given |-> [a \in Addresses |-> DefaultCredits], early |-> 0]
    /\ held = 0

Credits(a) == IF store.credits[a] = Unset THEN DefaultCredits ELSE store.credits[a]

\* quorum_for_credits, rounded up and at least one vote
QuorumNow ==
    LET scaled == store.totalIssued * store.minQuorum
        quorum == scaled \div 10 + (IF scaled % 10 > 0 THEN 1 ELSE 0)
    IN  IF quorum > 1 THEN quorum ELSE 1

MeetsQuorum(p) ==
    /\ p.votesFor + p.votesAgainst >= QuorumNow
    /\ p.votesFor + p.votesAgainst >= p.quorum

\* max_votes: the square root by Newton's method
MaxVotes(credits) ==
    LET newton[x \in 1 .. credits] ==
            LET y == (x + credits \div x) \div 2 IN IF y < x THEN newton[y] ELSE x
        half == (credits + 1) \div 2
    IN  IF credits <= 1 THEN credits
        ELSE IF half < credits THEN newton[half] ELSE credits

\* The ids start again, whatever proposals were made before.
Initialize(admin) ==
    /\ Call("governance")
    /\ store.admin = Nobody
    /\ store' = [store EXCEPT !.admin = admin, !.counter = 0, !.totalIssued = 0,
                              !.minQuorum = DefaultQuorum]
    /\ history' = [history EXCEPT !.early = Len(store.proposals)]
    /\ UNCHANGED held

ProposeNewAdmin(new) ==
    /\ Call("governance")
    /\ store.admin # Nobody
    /\ store' = [store EXCEPT !.pendingAdmin = new]
    /\ UNCHANGED <<held, history>>

ClaimAdminRole(new) ==
    /\ Call("governance")
    /\ store.pendingAdmin = new
    /\ store' = [store EXCEPT !.admin = new, !.pendingAdmin = Nobody]
    /\ UNCHANGED <<held, history>>

\* The first allocation replaces the default.
AllocateCredits(user, n) ==
    LET old == IF store.credits[user] = Unset THEN 0 ELSE store.credits[user] IN
    /\ Call("governance")
    /\ store.admin # Nobody
    /\ store.totalIssued + n <= MaxIssued
    /\ store' = [store EXCEPT !.credits[user] = old + n, !.totalIssued = @ + n]
    /\ history' = [history EXCEPT !.given[user] =
                      IF store.credits[user] = Unset THEN n ELSE @ + n]
    /\ UNCHANGED held

SetMinQuorum(q) ==
    /\ Call("governance")
    /\ store.admin # Nobody
    /\ store' = [store EXCEPT !.minQuorum = q]
    /\ UNCHANGED <<held, history>>

Opened(creator, period, userVotes) ==
    [creator |-> creator, votesFor |-> 0, votesAgainst |-> 0,
     totalCost |-> 0, voters |-> 0, deadline |-> now + period,
     quorum |-> QuorumNow, status |-> "OPEN", userVotes |-> userVotes]

\* Anyone, also before initialize.  What is stored under the id is written over,
\* but the votes on record are stored under keys of their own and stay.
CreateProposal(creator, period) ==
    LET id == store.counter + 1
        proposals == store.proposals
    IN  /\ Call("governance")
        /\ store.counter < MaxProposals
        /\ store' = [store EXCEPT !.counter = id, !.proposals =
              IF id \in DOMAIN proposals
              THEN [proposals EXCEPT ![id] = Opened(creator, period, proposals[id].userVotes)]
              ELSE Append(proposals, Opened(creator, period, [a \in Addresses |-> NoVote]))]
        /\ UNCHANGED <<held, history>>

CancelProposal(creator, id) ==
    LET p == store.proposals[id] IN
    /\ Call("governance")
    /\ p.creator = creator /\ p.status = "OPEN" /\ now < p.deadline
    /\ store' = [store EXCEPT !.proposals[id].status = "CANCELLED"]
    /\ UNCHANGED <<held, history>>

Counted(p, support, n) ==
    IF support THEN [p EXCEPT !.votesFor = @ + n] ELSE [p EXCEPT !.votesAgainst = @ + n]

Vote(voter, id, support, n) ==
    LET p == store.proposals[id] IN
    /\ Call("governance")
    /\ store.admin # Nobody
    /\ p.status = "OPEN" /\ now < p.deadline
    /\ p.userVotes[voter] = NoVote
    /\ Credits(voter) >= n * n
    /\ store' = [store EXCEPT
          !.credits[voter] = Credits(voter) - n * n,
          !.proposals[id] = [Counted(p, support, n) EXCEPT
              !.totalCost = @ + n * n, !.voters = @ + 1,
              !.userVotes[voter] = [votes |-> n, support |-> support]]]
    /\ UNCHANGED <<held, history>>

\* has_passed: the answer is read, the closing stays
HasPassed(id) ==
    LET p == store.proposals[id] IN
    /\ Call("governance")
    /\ p.status = "OPEN" /\ now >= p.deadline
    /\ store' = [store EXCEPT !.proposals[id].status = "CLOSED"]
    /\ UNCHANGED <<held, history>>

ExecuteProposal(executor, id) ==
    LET p == store.proposals[id] IN
    /\ Call("governance")
    /\ store.admin # Nobody
    /\ executor \in {store.admin, p.creator}
    /\ p.status = "CLOSED" \/ (p.status = "OPEN" /\ now >= p.deadline)
    /\ MeetsQuorum(p)
    /\ p.votesFor > p.votesAgainst
    /\ store' = [store EXCEPT !.proposals[id].status = "EXECUTED"]
    /\ UNCHANGED <<held, history>>

Next ==
    \/ \E a \in Addresses :
          \/ Initialize(a) \/ ProposeNewAdmin(a) \/ ClaimAdminRole(a)
          \/ \E n \in Votes : AllocateCredits(a, n)
          \/ \E period \in Periods : CreateProposal(a, period)
          \/ \E id \in DOMAIN store.proposals :
                \/ CancelProposal(a, id) \/ ExecuteProposal(a, id)
                \/ \E support \in BOOLEAN, n \in Votes : Vote(a, id, support, n)
    \/ \E q \in Quorums : SetMinQuorum(q)
    \/ \E id \in DOMAIN store.proposals : HasPassed(id)
    \/ TimePasses

Spec == Init /\ [][Next]_vars

------------------------------------------------------------------------------
(* Properties *)

Tally(p, support) ==
    LET votes == [a \in Addresses |-> IF p.userVotes[a].support = support
                                      THEN p.userVotes[a].votes ELSE 0]
    IN  MapThenSumSet(LAMBDA a : votes[a], Addresses)

\* The tally a decision is made from is the votes on record: nobody is counted
\* twice, and cancelling or closing loses none.  Where an id was given out before
\* initialize and so may have been given out twice, votes for the first proposal
\* can be on record besides: the tally is no more than the record.
TallyIsVotes ==
    \A id \in DOMAIN store.proposals :
        LET p == store.proposals[id] IN
        /\ p.votesFor <= Tally(p, TRUE) /\ p.votesAgainst <= Tally(p, FALSE)
        /\ id > history.early =>
              p.votesFor = Tally(p, TRUE) /\ p.votesAgainst = Tally(p, FALSE)

\* Over all proposals nobody casts more votes than the credits ever given to
\* the voter pay for, each at the square of its number.
Paid(a) ==
    LET cost == [id \in DOMAIN store.proposals |->
                    store.proposals[id].userVotes[a].votes * store.proposals[id].userVotes[a].votes]
    IN  MapThenSumSet(LAMBDA id : cost[id], DOMAIN store.proposals)
VotesArePaid == \A a \in Addresses : Credits(a) + Paid(a) = history.given[a]

\* What has been decided stays decided: from the deadline on the tally of a
\* proposal is fixed, and an executed or cancelled proposal stays so.  That is so
\* of the ids the counter has given out, which initialize starts again: a proposal
\* made before it is one of them until then, and may be written over afterwards.
DecidedStaysStep ==
    \A id \in 1 .. store.counter :
       LET p == store.proposals[id]
           q == store'.proposals[id]
       IN  /\ now >= p.deadline =>
                 <<p.votesFor, p.votesAgainst>> = <<q.votesFor, q.votesAgainst>>
           /\ p.status \in {"EXECUTED", "CANCELLED"} => q.status = p.status
DecidedStays == [][DecidedStaysStep]_vars

\* max_votes is what a voter can afford, and not one vote less.
MaxVotesIsRoot ==
    \A a \in Addresses :
        LET n == MaxVotes(Credits(a)) IN
        n * n <= Credits(a) /\ Credits(a) < (n + 1) * (n + 1)
==============================================================================
