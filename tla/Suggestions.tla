------------------------------ MODULE Suggestions ------------------------------
(***************************************************************************)
(* The songs a band's members suggest: offered, voted on, then accepted,   *)
(* rejected or withdrawn.                                                  *)
(*                                                                         *)
(* A request checks the caller's membership and reads the suggestion, then *)
(* writes: the band may change in between.  An acceptance claims the       *)
(* suggestion, adds the song to the setlist and, should that fail, opens   *)
(* the suggestion again; each of the three commits on its own.             *)
(***************************************************************************)
EXTENDS Integers, FiniteSets

CONSTANTS
    Fans,            \* people who may be in the band
    Offers,          \* suggestions ever made
    Tunes,           \* songs that are suggested for the setlist
    BandOwned,       \* the owner of a song that is the band's
    TuneOwner,       \* whose song each tune is
    SugRequests,     \* requests in progress
    Threshold,       \* suggestion_auto_accept_votes
    MaxMishaps       \* bound: times a song could not be added or the
                     \* program stopped

VARIABLES
    inBand,       \* `band_members`
    offer,        \* `band_song_suggestions`
    vote,         \* `band_song_suggestion_votes`: 1, -1, or 0 for none
    playing,      \* the songs of the setlist
    sugJob,       \* what each request is about to do
    added,        \* ghost: suggestions whose song was added
    stranded,     \* ghost: accepted, the song not added, not opened again
    addErrors, sugCrashes

sugVars == <<inBand, offer, vote, playing, sugJob, added, stranded,
             addErrors, sugCrashes>>

NoOffer == [status |-> "none", by |-> "none", tune |-> "none"]
OfferRecords ==
    [status : {"none", "open", "accepted", "rejected", "withdrawn"},
     by : Fans \cup {"none"}, tune : Tunes \cup {"none"}]
SugPCs == {"idle", "create", "vote", "accept", "add", "reopen", "reject",
           "withdraw"}
NoSugJob == [pc |-> "idle", who |-> "none", offer |-> "none", tune |-> "none"]
SugJobs == [pc : SugPCs, who : Fans \cup {"none"},
            offer : Offers \cup {"none"}, tune : Tunes \cup {"none"}]

Mishaps == addErrors + sugCrashes
IsOpen(o) == offer[o].status = "open"

\* idx_band_song_suggestions_open: one open suggestion of a song.
OpenTwice(t) == \E o \in Offers : IsOpen(o) /\ offer[o].tune = t

SugTo(r, pc) == sugJob' = [sugJob EXCEPT ![r].pc = pc]
EndSug(r) == sugJob' = [sugJob EXCEPT ![r] = NoSugJob]
BeginSug(r, pc, u, o, t) ==
    /\ sugJob[r].pc = "idle" /\ u \in inBand
    /\ sugJob' = [sugJob EXCEPT ![r] = [pc |-> pc, who |-> u, offer |-> o,
                                        tune |-> t]]

-----------------------------------------------------------------------------
(* Suggesting a song. *)

\* create_suggestion: a member, one of their own songs or one of the
\* band's, and not in the setlist yet.
AskCreate(r, u, t) ==
    /\ BeginSug(r, "create", u, "none", t)
    /\ TuneOwner[t] \in {u, BandOwned} /\ t \notin playing
    /\ UNCHANGED <<inBand, offer, vote, playing, added, stranded, addErrors,
                   sugCrashes>>

\* SuggestionRepository::create.
CreateOffer(r, o) ==
    LET t == sugJob[r].tune
        u == sugJob[r].who IN
    /\ sugJob[r].pc = "create" /\ offer[o].status = "none"
    /\ IF OpenTwice(t) THEN UNCHANGED offer
       ELSE offer' = [offer EXCEPT ![o] = [status |-> "open", by |-> u,
                                           tune |-> t]]
    /\ EndSug(r)
    /\ UNCHANGED <<inBand, vote, playing, added, stranded, addErrors,
                   sugCrashes>>

-----------------------------------------------------------------------------
(* Votes.  The suggester's own never counts, and is left out. *)

AskVote(r, u, o) ==
    /\ BeginSug(r, "vote", u, o, "none") /\ offer[o].status # "none"
    /\ UNCHANGED <<inBand, offer, vote, playing, added, stranded, addErrors,
                   sugCrashes>>

\* The votes of the present members.
Votes(v, cast) == Cardinality({u \in inBand : cast[u] = v})

\* reaches_auto_accept.
Reaches(up, down) == up >= Threshold /\ up > down

\* vote: the votes are counted under the suggestion's lock, and a count
\* that reaches the band's threshold goes on to accept.
CastVote(r, v) ==
    LET o == sugJob[r].offer
        u == sugJob[r].who
        cast == [vote[o] EXCEPT ![u] = IF u = offer[o].by THEN 0 ELSE v] IN
    /\ sugJob[r].pc = "vote"
    /\ IF ~IsOpen(o) THEN UNCHANGED vote /\ EndSug(r)
       ELSE /\ vote' = [vote EXCEPT ![o] = cast]
            /\ IF Reaches(Votes(1, cast), Votes(-1, cast))
               THEN SugTo(r, "accept") ELSE EndSug(r)
    /\ UNCHANGED <<inBand, offer, playing, added, stranded, addErrors,
                   sugCrashes>>

\* remove_vote.
RemoveVote(r) ==
    LET o == sugJob[r].offer IN
    /\ sugJob[r].pc = "vote"
    /\ vote' = IF IsOpen(o) THEN [vote EXCEPT ![o][sugJob[r].who] = 0] ELSE vote
    /\ EndSug(r)
    /\ UNCHANGED <<inBand, offer, playing, added, stranded, addErrors,
                   sugCrashes>>

-----------------------------------------------------------------------------
(* Closing a suggestion. *)

\* accept_suggestion and reject_suggestion by someone who may manage the
\* band's setlists; withdraw_suggestion by the one who made it.
AskClose(r, u, o, how) ==
    /\ BeginSug(r, how, u, o, "none")
    /\ offer[o].status # "none"
    /\ how = "withdraw" => offer[o].by = u
    /\ UNCHANGED <<inBand, offer, vote, playing, added, stranded, addErrors,
                   sugCrashes>>

\* Mutant of Closable: a closed suggestion can be closed again.
ClosableAgain(o) == offer[o].status # "none"

\* resolve: only an open suggestion is closed.
Closable(o) == IsOpen(o)

Closed(o, status) ==
    offer' = IF Closable(o) THEN [offer EXCEPT ![o].status = status] ELSE offer

\* accept: the suggestion is claimed before the song is added.
ClaimOffer(r) ==
    LET o == sugJob[r].offer IN
    /\ sugJob[r].pc = "accept" /\ Closed(o, "accepted")
    /\ IF Closable(o) THEN SugTo(r, "add") ELSE EndSug(r)
    /\ UNCHANGED <<inBand, vote, playing, added, stranded, addErrors, sugCrashes>>

\* add_suggested_song.
AddTune(r) ==
    LET o == sugJob[r].offer IN
    /\ sugJob[r].pc = "add"
    /\ playing' = playing \cup {offer[o].tune}
    /\ added' = added \cup {o}
    /\ EndSug(r)
    /\ UNCHANGED <<inBand, offer, vote, stranded, addErrors, sugCrashes>>

\* A quota, a song or a setlist that is gone, the database.
AddFails(r) ==
    /\ sugJob[r].pc = "add" /\ Mishaps < MaxMishaps
    /\ addErrors' = addErrors + 1 /\ SugTo(r, "reopen")
    /\ UNCHANGED <<inBand, offer, vote, playing, added, stranded, sugCrashes>>

\* Mutant of Reopened: a failed acceptance keeps the claim.
ReopenedNever(o) == offer

\* reopen; the open suggestion someone made of the same song in the
\* meantime makes it fail, which is only logged.
Reopened(o) ==
    IF offer[o].status = "accepted" /\ ~OpenTwice(offer[o].tune)
    THEN [offer EXCEPT ![o].status = "open"] ELSE offer

ReopenOffer(r) ==
    LET o == sugJob[r].offer IN
    /\ sugJob[r].pc = "reopen" /\ offer' = Reopened(o)
    /\ stranded' = IF OpenTwice(offer[o].tune) THEN stranded \cup {o} ELSE stranded
    /\ EndSug(r)
    /\ UNCHANGED <<inBand, vote, playing, added, addErrors, sugCrashes>>

RejectOffer(r) ==
    /\ sugJob[r].pc = "reject" /\ Closed(sugJob[r].offer, "rejected") /\ EndSug(r)
    /\ UNCHANGED <<inBand, vote, playing, added, stranded, addErrors, sugCrashes>>

WithdrawOffer(r) ==
    /\ sugJob[r].pc = "withdraw" /\ Closed(sugJob[r].offer, "withdrawn")
    /\ EndSug(r)
    /\ UNCHANGED <<inBand, vote, playing, added, stranded, addErrors, sugCrashes>>

-----------------------------------------------------------------------------
(* The band and the program. *)

\* delete_membership: open suggestions and the votes on them go too.
LeaveBand(u) ==
    /\ u \in inBand /\ inBand' = inBand \ {u}
    /\ offer' = [o \in Offers |-> IF IsOpen(o) /\ offer[o].by = u
                                  THEN [offer[o] EXCEPT !.status = "withdrawn"]
                                  ELSE offer[o]]
    /\ vote' = [o \in Offers |-> IF IsOpen(o) THEN [vote[o] EXCEPT ![u] = 0]
                                 ELSE vote[o]]
    /\ UNCHANGED <<playing, sugJob, added, stranded, addErrors, sugCrashes>>

\* The program stops: what it was doing is not taken up again.
SugCrash ==
    /\ Mishaps < MaxMishaps /\ sugCrashes' = sugCrashes + 1
    /\ stranded' = stranded \cup
         {sugJob[r].offer : r \in {q \in SugRequests :
                                     sugJob[q].pc \in {"add", "reopen"}}}
    /\ sugJob' = [r \in SugRequests |-> NoSugJob]
    /\ UNCHANGED <<inBand, offer, vote, playing, added, addErrors>>

SugInit ==
    /\ inBand = Fans /\ playing = {}
    /\ offer = [o \in Offers |-> NoOffer]
    /\ vote = [o \in Offers |-> [u \in Fans |-> 0]]
    /\ sugJob = [r \in SugRequests |-> NoSugJob]
    /\ added = {} /\ stranded = {} /\ addErrors = 0 /\ sugCrashes = 0

SugNext ==
    \/ \E r \in SugRequests :
          \/ \E u \in Fans :
                \/ \E t \in Tunes : AskCreate(r, u, t)
                \/ \E o \in Offers :
                      \/ AskVote(r, u, o)
                      \/ \E how \in {"accept", "reject", "withdraw"} :
                            AskClose(r, u, o, how)
          \/ \E o \in Offers : CreateOffer(r, o)
          \/ \E v \in {-1, 1} : CastVote(r, v)
          \/ RemoveVote(r) \/ ClaimOffer(r) \/ AddTune(r) \/ AddFails(r)
          \/ ReopenOffer(r) \/ RejectOffer(r) \/ WithdrawOffer(r)
    \/ \E u \in Fans : LeaveBand(u)
    \/ SugCrash

SugSpec == SugInit /\ [][SugNext]_sugVars

-----------------------------------------------------------------------------
(* What a suggestion promises. *)

\* Every variable keeps its type.
SugTypeOK ==
    /\ inBand \subseteq Fans /\ playing \subseteq Tunes
    /\ offer \in [Offers -> OfferRecords]
    /\ vote \in [Offers -> [Fans -> {-1, 0, 1}]]
    /\ sugJob \in [SugRequests -> SugJobs]
    /\ added \subseteq Offers /\ stranded \subseteq Offers
    /\ addErrors \in Nat /\ sugCrashes \in Nat

InHand(o) == \E r \in SugRequests :
                sugJob[r].offer = o /\ sugJob[r].pc \in {"add", "reopen"}

\* Of all who accept, reject or withdraw a suggestion at once, one wins: a
\* rejected or withdrawn suggestion stays so, and so does one whose song was
\* added, which is always one that says accepted (resolve, accept, reopen).
KeepsOutcome ==
    \A o \in Offers :
       \/ offer[o].status \notin {"rejected", "withdrawn"} /\ o \notin added
       \/ offer'[o].status = offer[o].status /\
          (o \in added' => offer[o].status = "accepted")
OneOutcome == [][KeepsOutcome]_sugVars

\* An accepted suggestion nobody is working on had its song added, unless
\* the program stopped half-way or the same song was suggested again before
\* the failed acceptance was undone (accept, reopen).
AcceptedIsAdded ==
    \A o \in Offers : offer[o].status = "accepted" =>
       InHand(o) \/ o \in added \cup stranded

\* What accept says of itself: when the song cannot be added, the claim is
\* undone and the suggestion is open again.
FailedIsOpenAgain ==
    sugCrashes = 0 =>
       \A o \in Offers : offer[o].status = "accepted" => InHand(o) \/ o \in added

\* What delete_membership says: the offers of an ex-member leave with them.
OfferLeavesWithMember ==
    \A o \in Offers : IsOpen(o) => offer[o].by \in inBand
=============================================================================
