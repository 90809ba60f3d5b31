------------------------- MODULE CompositionSplits --------------------------
(***************************************************************************)
(* n0te/credits.py: who is credited on a Song, and how its composition is  *)
(* split.  A sheet is drafted, submitted when its shares add up to the     *)
(* whole, confirmed or disputed person by person, and perhaps voided.      *)
(* Every call reads first and writes in a transaction of its own later, so *)
(* that the writes of another connection may come between; the tables'     *)
(* triggers are the last word.                                             *)
(***************************************************************************)
EXTENDS Naturals, FiniteSets, Sequences, SequencesExt

CONSTANTS
    SplitSongs,        \* Songs of the profile
    Participants,      \* recorded people
    Sheets,            \* fresh sheet ids (a bound), used in an order
    Whole,             \* 100 percent, in units of the smallest share drawn
    MaxSplitCalls,     \* calls that have read and not yet written (a bound)
    MaxConfirmations   \* confirmations of one sheet (a bound)

VARIABLES
    credits,   \* song_credits: <<Song, person>>, for one role
    sheets,    \* composition_split_sheets
    shares,    \* composition_split_allocations: 0 where there is no row
    confirmed, \* composition_split_confirmations, each with the share it was given to
    splitCalls \* calls between their reads and their write

vars == <<credits, sheets, shares, confirmed, splitCalls>>

States == {"DRAFT", "OPEN_CONFIRMATION", "VOIDED"}
Active == {"DRAFT", "OPEN_CONFIRMATION"}
Statuses == {"RECORDED_CONFIRMED", "RECORDED_DISPUTED"}
NoSheet == [song |-> "none", state |-> "NONE"]
Shares == [Participants -> 0..Whole]
Blank == [p \in Participants |-> 0]

Total(share) == FoldSet(LAMBDA p, sum : share[p] + sum, 0, Participants)
Parties(share) == {p \in Participants : share[p] > 0}

\* latest_confirmation, PENDING where there is none.
Latest(s, p) ==
    LET own == SelectSeq(confirmed[s], LAMBDA c : c.person = p) IN
    IF own = <<>> THEN "PENDING" ELSE Last(own).status

\* all_recorded_confirmed
AllRecordedConfirmed(s) ==
    /\ sheets[s].state = "OPEN_CONFIRMATION"
    /\ \A p \in Parties(shares[s]) : Latest(s, p) = "RECORDED_CONFIRMED"

TypeOK ==
    /\ credits \subseteq SplitSongs \X Participants
    /\ sheets \in [Sheets -> [song : SplitSongs, state : States] \cup {NoSheet}]
    /\ shares \in [Sheets -> Shares]
    /\ confirmed \in [Sheets -> Seq([person : Participants, status : Statuses, share : 0..Whole])]
    /\ Cardinality(splitCalls) <= MaxSplitCalls

Init ==
    /\ credits = {}
    /\ sheets = [s \in Sheets |-> NoSheet]
    /\ shares = [s \in Sheets |-> Blank]
    /\ confirmed = [s \in Sheets |-> <<>>]
    /\ splitCalls = {}

-----------------------------------------------------------------------------
(* What the triggers on the four tables allow. *)

MaySet(s) == sheets[s].state = "DRAFT"
MaySubmit(s) == sheets[s].state = "DRAFT" /\ Total(shares[s]) = Whole
MayConfirm(s, p) == sheets[s].state = "OPEN_CONFIRMATION" /\ p \in Parties(shares[s])

-----------------------------------------------------------------------------
\* UNIQUE(song_id, person_id, role); Songs and people are never removed.
Record_credit(song, p) ==
    /\ <<song, p>> \notin credits
    /\ credits' = credits \cup {<<song, p>>}
    /\ UNCHANGED <<sheets, shares, confirmed, splitCalls>>

\* Mutant: no unique index on the active sheets of a Song.
CreateAnotherDraft(s, song) ==
    /\ sheets[s] = NoSheet /\ s = CHOOSE fresh \in Sheets : sheets[fresh] = NoSheet
    /\ sheets' = [sheets EXCEPT ![s] = [song |-> song, state |-> "DRAFT"]]
    /\ UNCHANGED <<credits, shares, confirmed, splitCalls>>

Create_split_draft(s, song) ==
    /\ sheets[s] = NoSheet /\ s = CHOOSE fresh \in Sheets : sheets[fresh] = NoSheet
    /\ ~\E t \in Sheets : sheets[t].song = song /\ sheets[t].state \in Active
    /\ sheets' = [sheets EXCEPT ![s] = [song |-> song, state |-> "DRAFT"]]
    /\ UNCHANGED <<credits, shares, confirmed, splitCalls>>

\* A call that has passed all its checks.
Reads(call) ==
    /\ Cardinality(splitCalls) < MaxSplitCalls
    /\ splitCalls' = splitCalls \cup {call}
    /\ UNCHANGED <<credits, sheets, shares, confirmed>>

Writes(call) == call \in splitCalls /\ splitCalls' = splitCalls \ {call}

SetReads(s, share) ==
    /\ MaySet(s)
    /\ Total(share) <= Whole
    /\ Reads([op |-> "set", sheet |-> s, share |-> share])

\* Mutant: no trigger keeps allocations to drafts.
SetWritesAnyway(call) ==
    /\ call.op = "set"
    /\ Writes(call)
    /\ shares' = [shares EXCEPT ![call.sheet] = call.share]
    /\ UNCHANGED <<credits, sheets, confirmed>>

\* The old rows are deleted and the new ones inserted, or a trigger aborts both.
SetWrites(call) ==
    /\ call.op = "set"
    /\ Writes(call)
    /\ shares' = [shares EXCEPT ![call.sheet] =
                     IF MaySet(call.sheet) THEN call.share ELSE @]
    /\ UNCHANGED <<credits, sheets, confirmed>>

SubmitReads(s) ==
    /\ MaySubmit(s)
    /\ Reads([op |-> "submit", sheet |-> s])

\* The update is bound to a DRAFT, and credits_split_submit_complete adds up again.
SubmitWrites(call) ==
    /\ call.op = "submit"
    /\ Writes(call)
    /\ sheets' = [sheets EXCEPT ![call.sheet].state =
                     IF MaySubmit(call.sheet) THEN "OPEN_CONFIRMATION" ELSE @]
    /\ UNCHANGED <<credits, shares, confirmed>>

ConfirmReads(s, p, status) ==
    /\ MayConfirm(s, p)
    /\ Latest(s, p) # status
    /\ Len(confirmed[s]) < MaxConfirmations
    /\ Reads([op |-> "confirm", sheet |-> s, person |-> p, status |-> status])

\* credits_confirmation_binding_valid and _participant_only.
ConfirmWrites(call) ==
    /\ call.op = "confirm"
    /\ Writes(call)
    /\ confirmed' = [confirmed EXCEPT ![call.sheet] =
          IF MayConfirm(call.sheet, call.person)
          THEN Append(@, [person |-> call.person, status |-> call.status,
                          share |-> shares[call.sheet][call.person]])
          ELSE @]
    /\ UNCHANGED <<credits, sheets, shares>>

VoidReads(s) ==
    /\ sheets[s].state \in Active
    /\ Reads([op |-> "void", sheet |-> s])

VoidWrites(call) ==
    /\ call.op = "void"
    /\ Writes(call)
    /\ sheets' = [sheets EXCEPT ![call.sheet].state = IF @ \in Active THEN "VOIDED" ELSE @]
    /\ UNCHANGED <<credits, shares, confirmed>>

Next ==
    \/ \E song \in SplitSongs, p \in Participants : Record_credit(song, p)
    \/ \E s \in Sheets, song \in SplitSongs : Create_split_draft(s, song)
    \/ \E s \in Sheets, share \in Shares : SetReads(s, share)
    \/ \E s \in Sheets : SubmitReads(s) \/ VoidReads(s)
    \/ \E s \in Sheets, p \in Participants, status \in Statuses : ConfirmReads(s, p, status)
    \/ \E call \in splitCalls :
          SetWrites(call) \/ SubmitWrites(call) \/ ConfirmWrites(call) \/ VoidWrites(call)

Spec == Init /\ [][Next]_vars

-----------------------------------------------------------------------------
(* Properties.                                                             *)

\* What a person confirmed or disputed is still that person's share, whoever
\* replaced the allocations meanwhile, and a sheet agreed by all is a whole.
ConfirmedSharesStand ==
    \A s \in Sheets :
        /\ \A i \in DOMAIN confirmed[s] : confirmed[s][i].share = shares[s][confirmed[s][i].person]
        /\ AllRecordedConfirmed(s) => Total(shares[s]) = Whole

\* _validate_existing: whatever the calls did to each other, the memory opens,
\* and a Song has one active proposal.
SplitsOpen ==
    /\ \A s \in Sheets :
          /\ Total(shares[s]) <= Whole
          /\ sheets[s].state = "OPEN_CONFIRMATION" => Total(shares[s]) = Whole
          /\ \A i \in DOMAIN confirmed[s] : confirmed[s][i].person \in Parties(shares[s])
    /\ \A s, t \in Sheets :
          sheets[s].state \in Active /\ sheets[t].state \in Active /\ s # t =>
              sheets[s].song # sheets[t].song

=============================================================================
