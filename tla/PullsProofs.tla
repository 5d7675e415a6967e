---------------------------- MODULE PullsProofs ----------------------------
(***************************************************************************)
(* For any number of pull requests, comments, seconds and failed calls:    *)
(* an item is taken for merged only by a merge of its own, CI counts as    *)
(* passed only if it was green, and comments are told in turn.             *)
(*                                                                         *)
(* None of the three is inductive.  What a poll has read is older than     *)
(* what GitHub shows when it is taken up, so the invariant says of each    *)
(* answer the poll holds what GitHub has kept true of it since.            *)
(***************************************************************************)
EXTENDS Pulls, SequenceTheorems, WellFoundedInduction, TLAPS

-----------------------------------------------------------------------------
(* The largest of a bounded set of numbers *)

LEMMA MaxOfSome ==
  ASSUME NEW S, NEW N \in Nat, S \subseteq 0 .. N, S # {}
  PROVE  Max(S) \in S /\ \A y \in S : y <= Max(S)
  <1> DEFINE Less == {ss \in Nat \X Nat : ss[1] < ss[2]}
             Gaps == {N - x : x \in S}
  <1>1. IsWellFoundedOn(Less, Nat)
    BY NatLessThanWellFounded DEF OpToRel
  <1>2. Gaps \subseteq Nat /\ Gaps # {}
    <2>1. \A x \in S : N - x \in Nat
      OBVIOUS
    <2> QED
      BY <2>1
  <1> HIDE DEF Less
  <1>3. PICK least \in Gaps : \A y \in Gaps : ~(<<y, least>> \in Less)
    BY <1>1, <1>2, WFMin
  <1>4. PICK x \in S : \A y \in S : x >= y
    <2>1. PICK x \in S : least = N - x
      OBVIOUS
    <2>2. \A y \in S : ~((N - y) < least)
      BY <1>2, <1>3 DEF Less
    <2> QED
      BY <2>1, <2>2
  <1>5. Max(S) \in S /\ \A y \in S : Max(S) >= y
    BY <1>4 DEF Max
  <1> QED
    BY <1>5

-----------------------------------------------------------------------------
(* The invariant *)

\* A number the poll, the item or a heartbeat holds, of a PR opened for the item.
Own(n) == n \in DOMAIN pulls /\ pulls[n].ours

\* A number of a PR that was merged, whoever opened it.
Merged(n) == n \in DOMAIN pulls /\ pulls[n].state = "merged"

\* GitHub: a PR with the item's token is the item's, and so is one that is open.
OwnersTell ==
  \A n \in DOMAIN pulls : pulls[n].token = "mine" \/ pulls[n].state = "open" => pulls[n].ours

\* The answers of a poll: what was listed as open is the item's, what as merged is merged.
AnswersHold ==
  /\ poll.open > 0 => Own(poll.open)
  /\ poll.merged > 0 => Merged(poll.merged)
  /\ poll.at = "item" => poll.open > 0
  /\ poll.line = "merged" => Merged(poll.pr)
  /\ poll.line \in {"open", "pass", "fail", "pending"} => Own(poll.pr)

\* What the loop keeps is the item's.
KeepsOwn ==
  /\ reported # 0 => Own(reported)
  /\ item.pr # 0 => Own(item.pr)
  /\ OwnMergeOnly

\* The poll has noticed every moment at which no check was other than green.
ChecksWitnessed ==
  /\ poll.at # "idle" => (Green(check) => poll.calm)
  /\ poll.at = "lists" /\ poll.open >= 0 => (Green(poll.seen) => poll.calm)
  /\ poll.at = "item" /\ poll.merged # Asked => (Green(poll.seen) => poll.calm \/ poll.deaf)
  /\ poll.line = "pass" => poll.calm \/ poll.deaf

\* The comments of the batches are older the longer ago they were handed over.
InTurn ==
  /\ ToldInTurn
  /\ \A d \in told \cup relay, c \in batch : comments[d].at < comments[c].at
  /\ \A c \in batch \cup relay \cup told : comments[c].at <= item.mark

\* What was read is younger than the mark, and of one place it is the oldest.
ReadInTurn ==
  /\ poll.got \subseteq DOMAIN comments
  /\ \A c \in poll.got : comments[c].at > item.mark
  /\ poll.at \in {"comments", "ingest"} \/ poll.got = {}
  /\ \A d \in poll.got, c \in DOMAIN comments \ poll.got :
       Since(c) /\ comments[c].place = comments[d].place => comments[d].at <= comments[c].at

\* Comments are stamped by the clock.
Stamped == \A c \in DOMAIN comments : comments[c].at <= clock

\* What is not read yet at a stage of the poll.
StagesRight ==
  /\ poll.at = "comments" => poll.place \in 1 .. Len(Places)
  /\ poll.at \notin {"comments", "ingest"} => poll.place = 1
  /\ poll.at = "open" => poll.merged = Asked

Typed == TypeOK /\ StagesRight
OwnInv == OwnersTell /\ AnswersHold /\ KeepsOwn
TurnInv == InTurn /\ ReadInTurn /\ Stamped

IInv == Typed /\ OwnInv /\ ChecksWitnessed /\ TurnInv

-----------------------------------------------------------------------------
(* What the operators return *)

LEMMA ListedRight ==
  ASSUME TypeOK, NEW state
  PROVE  /\ Listed(state) \in 0 .. MaxPulls
         /\ Listed(state) # 0 => Listed(state) \in DOMAIN pulls /\ pulls[Listed(state)].state = state
  <1> DEFINE found == {n \in DOMAIN pulls : pulls[n].state = state}
  <1>1. found \subseteq 0 .. MaxPulls
    BY PullsAssumption DEF TypeOK
  <1>2. CASE found = {}
    BY <1>2, PullsAssumption DEF Listed
  <1>3. CASE found # {}
    <2>1. Max(found) \in found
      BY <1>1, <1>3, MaxOfSome, PullsAssumption
    <2>2. Listed(state) = Max(found)
      BY <1>3 DEF Listed
    <2> QED
      BY <1>1, <2>1, <2>2
  <1> QED
    BY <1>2, <1>3

\* The youngest stamp of comments that were read.
LEMMA LatestRight ==
  ASSUME TypeOK, NEW S, S \subseteq DOMAIN comments, S # {}
  PROVE  /\ Latest(S) \in 1 .. MaxSeconds
         /\ \A c \in S : comments[c].at <= Latest(S)
         /\ \E c \in S : comments[c].at = Latest(S)
  <1> DEFINE stamps == {comments[c].at : c \in S}
  <1>1. \A c \in S : comments[c].at \in 1 .. MaxSeconds
    <2>1. \A c \in S : comments[c] \in Comment
      BY DEF TypeOK
    <2> QED
      BY <2>1 DEF Comment
  <1>2. stamps \subseteq 0 .. MaxSeconds /\ stamps # {}
    BY <1>1, PullsAssumption
  <1>3. Max(stamps) \in stamps /\ \A y \in stamps : y <= Max(stamps)
    BY <1>2, MaxOfSome, PullsAssumption
  <1> QED
    BY <1>1, <1>3 DEF Latest

LEMMA MarkRight ==
  ASSUME IInv
  PROVE  /\ Mark \in 0 .. MaxSeconds
         /\ item.mark <= Mark
         /\ \A c \in poll.got : comments[c].at <= Mark
         /\ Mark # item.mark => \E c \in poll.got : comments[c].at = Mark
  <1>1. item.mark \in 0 .. MaxSeconds
    BY DEF IInv, Typed, TypeOK, Item
  <1>2. CASE poll.got = {}
    BY <1>1, <1>2 DEF Mark
  <1>3. CASE poll.got # {}
    <2>1. /\ Latest(poll.got) \in 1 .. MaxSeconds
          /\ \A c \in poll.got : comments[c].at <= Latest(poll.got)
          /\ \E c \in poll.got : comments[c].at = Latest(poll.got)
      BY <1>3, LatestRight DEF IInv, Typed, TurnInv, ReadInTurn
    <2>2. \A c \in poll.got : comments[c].at > item.mark
      BY DEF IInv, TurnInv, ReadInTurn
    <2>3. Mark = Latest(poll.got)
      BY <1>3 DEF Mark
    <2> QED
      BY <1>1, <2>1, <2>2, <2>3
  <1> QED
    BY <1>2, <1>3

\* Checks that passed were all green when they were read.
LEMMA PassIsGreen ==
  ASSUME NEW seen, NEW grace, ProcessChecks(seen, grace) = "pass"
  PROVE  Green(seen)
  BY DEF ProcessChecks, Green

-----------------------------------------------------------------------------
(* The initial states *)

LEMMA InitIInv == Init => IInv
  <1> SUFFICES ASSUME Init PROVE IInv
    OBVIOUS
  <1> USE PullsAssumption DEF Init
  <1>1. pulls = <<>> \/ \E pull \in Pull : ~pull.ours /\ pull.state \in {"merged", "closed"}
                                           /\ pull.token # "mine" /\ pulls = <<pull>>
    <2>1. ASSUME NEW state \in {"merged", "closed"}, NEW token \in {"other", "none"},
                 pulls = <<[state |-> state, token |-> token, ours |-> FALSE]>>
          PROVE  \E pull \in Pull : ~pull.ours /\ pull.state \in {"merged", "closed"}
                                    /\ pull.token # "mine" /\ pulls = <<pull>>
      <3> DEFINE pull == [state |-> state, token |-> token, ours |-> FALSE]
      <3>1. pull \in Pull
        BY DEF Pull, Tokens
      <3> QED
        BY <2>1, <3>1
    <2> QED
      BY <2>1
  <1>2. TypeOK
    <2>1. pulls \in Seq(Pull) /\ Len(pulls) <= MaxPulls
      <3>1. CASE pulls = <<>>
        BY <3>1
      <3>2. ASSUME NEW pull \in Pull, pulls = <<pull>>
            PROVE  pulls \in Seq(Pull) /\ Len(pulls) <= MaxPulls
        BY <3>2
      <3> QED
        BY <1>1, <3>1, <3>2
    <2>2. check \in [Checks -> CheckStates] /\ NoChecks \in [Checks -> CheckStates]
      BY DEF NoChecks, CheckStates
    <2>3. item \in Item
      BY DEF Item, States
    <2>4. poll \in Poll
      <3>1. Asked \in Answer /\ 1 \in 1 .. Len(Places) + 1 /\ 0 \in 0 .. MaxPulls
        BY DEF Answer, Places
      <3>2. {} \in SUBSET (1 .. MaxComments)
        OBVIOUS
      <3> QED
        BY <2>2, <3>1, <3>2 DEF Idle, Poll
    <2>5. comments = <<>> /\ comments \in Seq(Comment) /\ Len(comments) <= MaxComments
      OBVIOUS
    <2> QED
      BY <2>1, <2>2, <2>3, <2>4, <2>5 DEF TypeOK
  <1>3. StagesRight /\ ChecksWitnessed
    BY DEF StagesRight, ChecksWitnessed, Idle, Asked
  <1>4. OwnInv
    <2>1. OwnersTell
      BY <1>1 DEF OwnersTell
    <2>2. AnswersHold
      <3>1. poll.open = -1 /\ poll.merged = -1 /\ poll.at = "idle" /\ poll.line = ""
        BY DEF Idle, Asked
      <3>2. ~(-1 > 0)
        OBVIOUS
      <3> QED
        BY <3>1, <3>2 DEF AnswersHold
    <2>3. KeepsOwn
      BY DEF KeepsOwn, OwnMergeOnly
    <2> QED
      BY <2>1, <2>2, <2>3 DEF OwnInv
  <1>5. TurnInv
    <2>1. InTurn /\ Stamped
      BY DEF InTurn, ToldInTurn, Stamped
    <2>2. ReadInTurn
      BY DEF ReadInTurn, Idle
    <2> QED
      BY <2>1, <2>2 DEF TurnInv
  <1> QED
    BY <1>2, <1>3, <1>4, <1>5 DEF IInv, Typed

-----------------------------------------------------------------------------
(* Steps of GitHub, the worker and people *)

LEMMA BudgetRight ==
  ASSUME TypeOK, NEW kind \in Kinds, Spends(kind)
  PROVE  budget' \in [Kinds -> Nat]
  <1>1. budget[kind] \in Nat /\ budget[kind] > 0
    BY DEF TypeOK, Spends
  <1>2. budget[kind] - 1 \in Nat
    BY <1>1
  <1> QED
    BY <1>2 DEF TypeOK, Spends

\* What these steps leave of a poll: all it has read.
Rereads(next) == \E calm \in BOOLEAN : next = [poll EXCEPT !.calm = calm]

LEMMA WitnessedRight ==
  ASSUME TypeOK, poll' = Witnessed
  PROVE  /\ Rereads(poll')
         /\ poll.at # "idle" => (Green(check') => poll'.calm)
         /\ poll.calm => poll'.calm
  <1>1. poll.calm \in BOOLEAN /\ Green(check') \in BOOLEAN
    BY DEF TypeOK, Poll, Green
  <1>2. poll = [poll EXCEPT !.calm = poll.calm]
    BY DEF TypeOK, Poll
  <1>3. CASE poll.at = "idle"
    BY <1>1, <1>2, <1>3 DEF Witnessed, Rereads
  <1>4. CASE poll.at # "idle"
    BY <1>1, <1>4 DEF Witnessed, Rereads, TypeOK, Poll
  <1> QED
    BY <1>3, <1>4

LEMMA RereadsRight ==
  ASSUME TypeOK, Rereads(poll')
  PROVE  /\ poll' \in Poll
         /\ poll'.at = poll.at /\ poll'.open = poll.open /\ poll'.merged = poll.merged
         /\ poll'.line = poll.line /\ poll'.pr = poll.pr /\ poll'.got = poll.got
         /\ poll'.seen = poll.seen /\ poll'.deaf = poll.deaf /\ poll'.place = poll.place
  BY DEF TypeOK, Poll, Rereads

\* Nothing is lost of what was true of a PR, unless the PR was open.
LEMMA OwnKeeps ==
  ASSUME OwnInv, UNCHANGED item, OwnersTell',
         poll'.at = poll.at, poll'.open = poll.open, poll'.merged = poll.merged,
         poll'.line = poll.line, poll'.pr = poll.pr,
         DOMAIN pulls \subseteq DOMAIN pulls',
         \A n \in DOMAIN pulls : pulls'[n].ours = pulls[n].ours,
         \A n \in DOMAIN pulls : pulls[n].state = "merged" => pulls'[n].state = "merged",
         UNCHANGED reported \/ Own(reported)'
  PROVE  OwnInv'
  <1>1. \A n : Own(n) => Own(n)'
    BY DEF Own
  <1>2. \A n : Merged(n) => Merged(n)'
    BY DEF Merged
  <1>3. AnswersHold'
    BY <1>1, <1>2 DEF OwnInv, AnswersHold
  <1>4. KeepsOwn'
    <2>1. OwnMergeOnly'
      BY DEF OwnInv, KeepsOwn, OwnMergeOnly
    <2>2. reported' # 0 => Own(reported)'
      BY <1>1 DEF OwnInv, KeepsOwn
    <2>3. item'.pr # 0 => Own(item.pr)'
      BY <1>1 DEF OwnInv, KeepsOwn
    <2> QED
      BY <2>1, <2>2, <2>3 DEF KeepsOwn
  <1> QED
    BY <1>3, <1>4 DEF OwnInv

\* The comments and the clock stay as they are, and so does what the loop has.
LEMMA TurnStays ==
  ASSUME TurnInv, UNCHANGED <<comments, clock, loop>>, poll'.at = poll.at, poll'.got = poll.got
  PROVE  TurnInv'
  <1> USE DEF loop
  <1>1. InTurn' /\ Stamped'
    BY DEF TurnInv, InTurn, ToldInTurn, Stamped
  <1>2. ReadInTurn'
    BY DEF TurnInv, ReadInTurn, Since
  <1> QED
    BY <1>1, <1>2 DEF TurnInv

\* Checks are the same, or the poll was told of them.
LEMMA WitnessStays ==
  ASSUME ChecksWitnessed, poll'.at = poll.at, poll'.open = poll.open, poll'.merged = poll.merged,
         poll'.line = poll.line, poll'.seen = poll.seen, poll'.deaf = poll.deaf,
         poll.calm => poll'.calm,
         poll.at # "idle" => (Green(check') => poll'.calm)
  PROVE  ChecksWitnessed'
  BY DEF ChecksWitnessed, Green

LEMMA OpenPrKeeps ==
  ASSUME IInv, NEW token \in {"mine", "none"}, OpenPr(token)
  PROVE  IInv'
  <1> DEFINE pull == [state |-> "open", token |-> token, ours |-> TRUE]
  <1> USE PullsAssumption
  <1>1. TypeOK /\ OwnInv /\ ChecksWitnessed /\ TurnInv
    BY DEF IInv, Typed
  <1>2. pull \in Pull
    BY DEF Pull, Tokens
  <1>3. pulls' = Append(pulls, pull) /\ pulls' \in Seq(Pull) /\ Len(pulls') <= MaxPulls
        /\ Len(pulls') = Len(pulls) + 1
    BY <1>1, <1>2 DEF OpenPr, TypeOK
  <1>4. /\ Rereads(poll') /\ (poll.calm => poll'.calm)
        /\ poll.at # "idle" => (Green(check') => poll'.calm)
    BY <1>1, WitnessedRight DEF OpenPr
  <1>5. /\ poll' \in Poll
        /\ poll'.at = poll.at /\ poll'.open = poll.open /\ poll'.merged = poll.merged
        /\ poll'.line = poll.line /\ poll'.pr = poll.pr /\ poll'.got = poll.got
        /\ poll'.seen = poll.seen /\ poll'.deaf = poll.deaf /\ poll'.place = poll.place
    BY <1>1, <1>4, RereadsRight
  <1>6. TypeOK'
    <2>1. check' \in [Checks -> CheckStates]
      BY DEF OpenPr, NoChecks, CheckStates
    <2>2. budget' \in [Kinds -> Nat]
      BY <1>1, BudgetRight DEF OpenPr, Happens, Kinds
    <2>3. age' \in 0 .. 2 /\ reported' \in 0 .. Len(pulls')
      BY <1>1, <1>3 DEF OpenPr, TypeOK
    <2> QED
      BY <1>1, <1>3, <1>5, <2>1, <2>2, <2>3 DEF OpenPr, Happens, loop, TypeOK
  <1>7. OwnInv'
    <2>1. OwnersTell'
      BY <1>1, <1>2, <1>3 DEF OwnInv, OwnersTell, TypeOK
    <2>2. /\ DOMAIN pulls \subseteq DOMAIN pulls'
          /\ \A n \in DOMAIN pulls : pulls'[n] = pulls[n]
      BY <1>1, <1>2, <1>3 DEF TypeOK
    <2> QED
      BY <1>1, <1>5, <2>1, <2>2, OwnKeeps DEF OpenPr, Happens, loop
  <1>8. ChecksWitnessed'
    BY <1>1, <1>4, <1>5, WitnessStays
  <1>9. TurnInv'
    BY <1>1, <1>5, TurnStays DEF OpenPr, Happens, loop
  <1>10. StagesRight'
    BY <1>5 DEF IInv, Typed, StagesRight
  <1> QED
    BY <1>6, <1>7, <1>8, <1>9, <1>10 DEF IInv, Typed

LEMMA ReportPrKeeps ==
  ASSUME IInv, ReportPr
  PROVE  IInv'
  <1> USE DEF ReportPr, Happens, loop
  <1>1. TypeOK /\ OwnInv /\ ChecksWitnessed /\ TurnInv /\ StagesRight
    BY DEF IInv, Typed
  <1>2. Listed("open") \in DOMAIN pulls /\ pulls[Listed("open")].state = "open"
    BY <1>1, ListedRight
  <1>3. TypeOK'
    <2>1. budget' \in [Kinds -> Nat]
      BY <1>1, BudgetRight DEF Kinds
    <2>2. reported' \in 0 .. Len(pulls')
      BY <1>1, <1>2 DEF TypeOK
    <2> QED
      BY <1>1, <2>1, <2>2 DEF TypeOK
  <1>4. OwnInv'
    <2>1. OwnersTell' /\ Own(reported)'
      BY <1>1, <1>2 DEF OwnInv, OwnersTell, Own
    <2> QED
      BY <1>1, <2>1, OwnKeeps
  <1>5. ChecksWitnessed' /\ StagesRight'
    BY <1>1 DEF ChecksWitnessed, Green, StagesRight
  <1>6. TurnInv'
    BY <1>1, TurnStays
  <1> QED
    BY <1>3, <1>4, <1>5, <1>6 DEF IInv, Typed

LEMMA ReplacedInSeq ==
  ASSUME NEW S, NEW seq \in Seq(S), NEW i \in DOMAIN seq, NEW e \in S
  PROVE  /\ [seq EXCEPT ![i] = e] \in Seq(S)
         /\ Len([seq EXCEPT ![i] = e]) = Len(seq)
         /\ DOMAIN [seq EXCEPT ![i] = e] = DOMAIN seq
         /\ \A n \in DOMAIN seq : [seq EXCEPT ![i] = e][n] = IF n = i THEN e ELSE seq[n]
  <1>1. i \in 1 .. Len(seq) /\ DOMAIN seq = 1 .. Len(seq)
    OBVIOUS
  <1> QED
    BY <1>1, ExceptSeq

LEMMA EndPrKeeps ==
  ASSUME IInv, NEW state \in {"merged", "closed"}, EndPr(state)
  PROVE  IInv'
  <1> USE DEF EndPr, Happens, loop
  <1> DEFINE ended == Listed("open")
  <1>1. TypeOK /\ OwnInv /\ ChecksWitnessed /\ TurnInv /\ StagesRight
    BY DEF IInv, Typed
  <1>2. ended \in DOMAIN pulls /\ pulls[ended].state = "open"
    BY <1>1, ListedRight
  <1> HIDE DEF ended
  <1> DEFINE over == [pulls[ended] EXCEPT !.state = state]
  <1>3. pulls' = [pulls EXCEPT ![ended] = over]
    BY DEF ended
  <1>4. /\ pulls' \in Seq(Pull) /\ Len(pulls') = Len(pulls) /\ DOMAIN pulls' = DOMAIN pulls
        /\ \A n \in DOMAIN pulls : n # ended => pulls'[n] = pulls[n]
        /\ pulls'[ended].ours = pulls[ended].ours /\ pulls'[ended].token = pulls[ended].token
    <2>1. pulls[ended] \in Pull
      BY <1>1, <1>2 DEF TypeOK
    <2>2. over \in Pull /\ over.ours = pulls[ended].ours /\ over.token = pulls[ended].token
      BY <2>1 DEF Pull
    <2> HIDE DEF over
    <2>3. pulls \in Seq(Pull) /\ DOMAIN pulls = 1 .. Len(pulls)
      BY <1>1 DEF TypeOK
    <2>4. /\ pulls' \in Seq(Pull) /\ Len(pulls') = Len(pulls) /\ DOMAIN pulls' = DOMAIN pulls
          /\ \A n \in DOMAIN pulls : pulls'[n] = IF n = ended THEN over ELSE pulls[n]
      BY ONLY <1>2, <1>3, <2>2, <2>3, ReplacedInSeq
    <2> QED
      BY <1>2, <2>2, <2>4
  <1>5. TypeOK'
    <2>1. budget' \in [Kinds -> Nat]
      BY <1>1, BudgetRight DEF Kinds
    <2> QED
      BY <1>1, <1>4, <2>1 DEF TypeOK
  <1>6. OwnInv'
    <2>1. OwnersTell'
      BY <1>1, <1>2, <1>4 DEF OwnInv, OwnersTell
    <2>2. \A n \in DOMAIN pulls : pulls'[n].ours = pulls[n].ours
      BY <1>4
    <2>3. \A n \in DOMAIN pulls : pulls[n].state = "merged" => pulls'[n].state = "merged"
      BY <1>2, <1>4
    <2> QED
      BY <1>1, <1>4, <2>1, <2>2, <2>3, OwnKeeps
  <1>7. ChecksWitnessed' /\ StagesRight'
    BY <1>1 DEF ChecksWitnessed, Green, StagesRight
  <1>8. TurnInv'
    BY <1>1, TurnStays
  <1> QED
    BY <1>5, <1>6, <1>7, <1>8 DEF IInv, Typed

LEMMA CheckRunsKeeps ==
  ASSUME IInv, NEW c \in Checks, NEW state \in CheckStates, CheckRuns(c, state)
  PROVE  IInv'
  <1> USE DEF CheckRuns, Happens, loop
  <1>1. TypeOK /\ OwnInv /\ ChecksWitnessed /\ TurnInv /\ StagesRight
    BY DEF IInv, Typed
  <1>2. /\ Rereads(poll') /\ (poll.calm => poll'.calm)
        /\ poll.at # "idle" => (Green(check') => poll'.calm)
    BY <1>1, WitnessedRight
  <1>3. /\ poll' \in Poll
        /\ poll'.at = poll.at /\ poll'.open = poll.open /\ poll'.merged = poll.merged
        /\ poll'.line = poll.line /\ poll'.pr = poll.pr /\ poll'.got = poll.got
        /\ poll'.seen = poll.seen /\ poll'.deaf = poll.deaf /\ poll'.place = poll.place
    BY <1>1, <1>2, RereadsRight
  <1>4. TypeOK'
    <2>1. budget' \in [Kinds -> Nat]
      BY <1>1, BudgetRight DEF Kinds
    <2>2. check' \in [Checks -> CheckStates]
      BY <1>1 DEF TypeOK
    <2> QED
      BY <1>1, <1>3, <2>1, <2>2 DEF TypeOK
  <1>5. OwnInv'
    BY <1>1, <1>3, OwnKeeps DEF OwnInv, OwnersTell
  <1>6. ChecksWitnessed'
    BY <1>1, <1>2, <1>3, WitnessStays
  <1>7. TurnInv'
    BY <1>1, <1>3, TurnStays
  <1>8. StagesRight'
    BY <1>1, <1>3 DEF StagesRight
  <1> QED
    BY <1>4, <1>5, <1>6, <1>7, <1>8 DEF IInv, Typed

LEMMA PostKeeps ==
  ASSUME IInv, NEW place \in Range(Places), NEW by \in {"human", "agent"}, Post(place, by)
  PROVE  IInv'
  <1> USE DEF Post, Happens, loop
  <1> DEFINE comment == [place |-> place, at |-> clock, by |-> by]
             new == Len(comments) + 1
  <1>1. TypeOK /\ OwnInv /\ ChecksWitnessed /\ TurnInv /\ StagesRight
    BY DEF IInv, Typed
  <1>2. comment \in Comment
    BY <1>1 DEF TypeOK, Comment
  <1>3. /\ comments' = Append(comments, comment) /\ comments' \in Seq(Comment)
        /\ Len(comments') = new /\ Len(comments') <= MaxComments
        /\ DOMAIN comments' = DOMAIN comments \cup {new} /\ new \notin DOMAIN comments
        /\ \A c \in DOMAIN comments : comments'[c] = comments[c]
        /\ comments'[new] = comment
    BY <1>1, <1>2, PullsAssumption DEF TypeOK
  <1> HIDE DEF new, comment
  <1>4. TypeOK'
    <2>1. budget' \in [Kinds -> Nat]
      BY <1>1, BudgetRight DEF Kinds
    <2> QED
      BY <1>1, <1>3, <2>1 DEF TypeOK
  <1>5. OwnInv'
    BY <1>1, OwnKeeps DEF OwnInv, OwnersTell
  <1>6. ChecksWitnessed' /\ StagesRight'
    BY <1>1 DEF ChecksWitnessed, Green, StagesRight
  <1>7. TurnInv'
    <2>1. batch \subseteq DOMAIN comments /\ relay \subseteq DOMAIN comments
          /\ told \subseteq DOMAIN comments /\ poll.got \subseteq DOMAIN comments
      BY <1>1 DEF TypeOK, TurnInv, ReadInTurn
    <2>2. InTurn'
      BY <1>1, <1>3, <2>1 DEF TurnInv, InTurn, ToldInTurn
    <2>3. \A c \in DOMAIN comments : comments[c].at <= clock
      BY <1>1 DEF TurnInv, Stamped
    <2>4. comments'[new].at = clock /\ clock \in Nat
      BY <1>1, <1>3 DEF comment, TypeOK
    <2>5. Stamped'
      BY <1>3, <2>3, <2>4 DEF Stamped
    <2>6. \A d \in poll.got, c \in DOMAIN comments' \ poll.got :
            Since(c)' /\ comments'[c].place = comments'[d].place => comments'[d].at <= comments'[c].at
      <3> TAKE d \in poll.got, c \in DOMAIN comments' \ poll.got
      <3>1. CASE c = new
        BY <3>1, <1>3, <2>1, <2>3, <2>4
      <3>2. CASE c # new
        <4>1. c \in DOMAIN comments \ poll.got /\ Since(c) = Since(c)'
          BY <1>3, <3>2 DEF Since
        <4> QED
          BY <1>1, <1>3, <2>1, <4>1 DEF TurnInv, ReadInTurn
      <3> QED
        BY <3>1, <3>2
    <2>7. ReadInTurn'
      BY <1>1, <1>3, <2>1, <2>6 DEF TurnInv, ReadInTurn
    <2> QED
      BY <2>2, <2>5, <2>7 DEF TurnInv
  <1> QED
    BY <1>4, <1>5, <1>6, <1>7 DEF IInv, Typed

LEMMA TickKeeps ==
  ASSUME IInv, Tick
  PROVE  IInv'
  <1> USE DEF Tick, Happens, loop
  <1>1. TypeOK /\ OwnInv /\ ChecksWitnessed /\ TurnInv /\ StagesRight
    BY DEF IInv, Typed
  <1>2. TypeOK'
    <2>1. budget' \in [Kinds -> Nat]
      BY <1>1, BudgetRight DEF Kinds
    <2> QED
      BY <1>1, <2>1, PullsAssumption DEF TypeOK
  <1>3. OwnInv'
    BY <1>1, OwnKeeps DEF OwnInv, OwnersTell
  <1>4. ChecksWitnessed' /\ StagesRight'
    BY <1>1 DEF ChecksWitnessed, Green, StagesRight
  <1>5. TurnInv'
    <2>1. InTurn' /\ ReadInTurn'
      BY <1>1 DEF TurnInv, InTurn, ToldInTurn, ReadInTurn, Since
    <2>2. \A c \in DOMAIN comments : comments[c].at \in 1 .. MaxSeconds /\ comments[c].at <= clock
      <3>1. \A c \in DOMAIN comments : comments[c] \in Comment
        BY <1>1 DEF TypeOK
      <3> QED
        BY <1>1, <3>1 DEF TurnInv, Stamped, Comment
    <2>3. Stamped'
      BY <1>1, <2>2 DEF Stamped, TypeOK
    <2> QED
      BY <2>1, <2>3 DEF TurnInv
  <1> QED
    BY <1>2, <1>3, <1>4, <1>5 DEF IInv, Typed

LEMMA PrAgesKeeps ==
  ASSUME IInv, PrAges
  PROVE  IInv'
  <1> USE DEF PrAges, Happens, loop
  <1>1. TypeOK /\ OwnInv /\ ChecksWitnessed /\ TurnInv /\ StagesRight
    BY DEF IInv, Typed
  <1>2. TypeOK'
    <2>1. budget' \in [Kinds -> Nat]
      BY <1>1, BudgetRight DEF Kinds
    <2> QED
      BY <1>1, <2>1 DEF TypeOK
  <1>3. OwnInv'
    BY <1>1, OwnKeeps DEF OwnInv, OwnersTell
  <1>4. ChecksWitnessed' /\ StagesRight'
    BY <1>1 DEF ChecksWitnessed, Green, StagesRight
  <1>5. TurnInv'
    BY <1>1, TurnStays
  <1> QED
    BY <1>2, <1>3, <1>4, <1>5 DEF IInv, Typed

LEMMA WorldKeeps ==
  ASSUME IInv, World
  PROVE  IInv'
  BY OpenPrKeeps, ReportPrKeeps, EndPrKeeps, CheckRunsKeeps, PostKeeps, TickKeeps, PrAgesKeeps
  DEF World

-----------------------------------------------------------------------------
(* The calls of a poll *)

\* A step of the poll moves nothing else; it is right if what it has read is.
LEMMA PollKeeps ==
  ASSUME IInv, NEW next, Polls(next), Answers \/ Fails,
         next \in Poll, StagesRight', AnswersHold', ChecksWitnessed', ReadInTurn'
  PROVE  IInv'
  <1> USE DEF Polls, github, loop
  <1>1. budget' \in [Kinds -> Nat]
    <2>1. CASE Answers
      BY <2>1 DEF Answers, IInv, Typed, TypeOK
    <2>2. CASE Fails
      BY <2>2, BudgetRight DEF Fails, Kinds, IInv, Typed
    <2> QED
      BY <2>1, <2>2
  <1>2. TypeOK'
    BY <1>1 DEF IInv, Typed, TypeOK
  <1>3. OwnersTell' /\ KeepsOwn'
    BY DEF IInv, OwnInv, OwnersTell, KeepsOwn, Own, OwnMergeOnly
  <1>4. InTurn' /\ Stamped'
    BY DEF IInv, TurnInv, InTurn, ToldInTurn, Stamped
  <1> QED
    BY <1>2, <1>3, <1>4 DEF IInv, Typed, OwnInv, TurnInv

\* Before comments are read none is read in turn.
LEMMA NothingRead ==
  ASSUME poll'.got = {}
  PROVE  ReadInTurn'
  BY DEF ReadInTurn

\* The numbers of the PRs that are open and merged now.
LEMMA ListedHolds ==
  ASSUME IInv
  PROVE  /\ Listed("open") \in 0 .. MaxPulls /\ Listed("merged") \in 0 .. MaxPulls
         /\ Listed("open") # 0 => Own(Listed("open"))
         /\ Listed("merged") # 0 => Merged(Listed("merged"))
  BY ListedRight DEF IInv, Typed, OwnInv, OwnersTell, Own, Merged

LEMMA IdleRight ==
  /\ Idle.at = "idle" /\ Idle.open = Asked /\ Idle.merged = Asked /\ Idle.viewed = Asked
  /\ Idle.seen = NoChecks /\ Idle.line = "" /\ Idle.pr = 0 /\ Idle.place = 1
  /\ Idle.got = {} /\ Idle.calm = FALSE /\ Idle.deaf = FALSE
  /\ ~(Asked > 0) /\ ~(Asked >= 0) /\ ~(Failed > 0) /\ ~(Failed >= 0) /\ Asked # Failed
  /\ Asked \in Answer /\ Failed \in Answer /\ 0 .. MaxPulls \subseteq Answer
  /\ \A n \in Answer \ {Asked, Failed} : n \in 0 .. MaxPulls
  /\ NoChecks \in [Checks -> CheckStates]
  /\ Idle \in Poll
  <1>1. NoChecks \in [Checks -> CheckStates]
    BY DEF NoChecks, CheckStates
  <1>2. Asked \in Answer /\ 1 \in 1 .. Len(Places) + 1 /\ 0 \in 0 .. MaxPulls
    BY PullsAssumption DEF Answer, Places
  <1>3. Idle \in Poll
    BY <1>1, <1>2 DEF Idle, Poll
  <1>4. ~(-1 > 0) /\ ~(-1 >= 0) /\ ~(-2 > 0) /\ ~(-2 >= 0) /\ -1 # -2
    OBVIOUS
  <1> QED
    BY <1>1, <1>3, <1>4 DEF Idle, Asked, Failed, Answer

LEMMA StartPollKeeps ==
  ASSUME IInv, StartPoll
  PROVE  IInv'
  <1> DEFINE next == [Idle EXCEPT !.at = "lists", !.calm = Green(check)]
  <1>1. Polls(next) /\ Answers
    BY DEF StartPoll
  <1>2. /\ next \in Poll
        /\ next.at = "lists" /\ next.open = Asked /\ next.merged = Asked /\ next.line = ""
        /\ next.place = 1
        /\ next.got = {} /\ next.calm = Green(check)
    BY IdleRight, ZenonT(60) DEF Poll, Green
  <1> HIDE DEF next
  <1>3. poll' = next /\ check' = check
    BY <1>1 DEF Polls, github
  <1>4. AnswersHold' /\ StagesRight'
    BY <1>2, <1>3, IdleRight DEF AnswersHold, StagesRight
  <1>5. ChecksWitnessed'
    BY <1>2, <1>3, IdleRight DEF ChecksWitnessed
  <1> QED
    BY <1>1, <1>2, <1>3, <1>4, <1>5, NothingRead, PollKeeps

LEMMA FetchOpenKeeps ==
  ASSUME IInv, FetchOpen
  PROVE  IInv'
  <1>1. TypeOK /\ poll \in Poll /\ poll.at = "lists" /\ poll.got = {} /\ check \in [Checks -> CheckStates]
    BY DEF IInv, Typed, TypeOK, TurnInv, ReadInTurn, FetchOpen
  <1>2. PICK answer \in {Listed("open"), Failed}, seen \in {check, poll.seen} :
          /\ Polls([poll EXCEPT !.open = answer, !.seen = seen])
          /\ Answers \/ Fails
          /\ answer # Failed => seen = check
    <2>1. CASE Answers /\ Polls([poll EXCEPT !.open = Listed("open"), !.seen = check])
      BY <2>1
    <2>2. CASE Fails /\ Polls([poll EXCEPT !.open = Failed])
      <3>1. [poll EXCEPT !.open = Failed] = [poll EXCEPT !.open = Failed, !.seen = poll.seen]
        BY <1>1 DEF Poll
      <3> QED
        BY <2>2, <3>1
    <2> QED
      BY <2>1, <2>2 DEF FetchOpen
  <1> DEFINE next == [poll EXCEPT !.open = answer, !.seen = seen]
  <1>3. answer \in Answer /\ (answer > 0 => Own(answer)) /\ seen \in [Checks -> CheckStates]
    <2>1. seen \in [Checks -> CheckStates]
      BY <1>1, <1>2 DEF Poll
    <2>2. answer \in Answer /\ (answer > 0 => Own(answer))
      <3>1. CASE answer = Failed
        BY <3>1, IdleRight
      <3>2. CASE answer = Listed("open")
        <4>1. answer \in 0 .. MaxPulls /\ (answer # 0 => Own(answer))
          BY <3>2, ListedHolds
        <4>2. answer \in Answer
          BY <4>1 DEF Answer
        <4> QED
          BY <4>1, <4>2
      <3> QED
        BY <1>2, <3>1, <3>2
    <2> QED
      BY <2>1, <2>2
  <1>4. /\ next \in Poll
        /\ next.at = poll.at /\ next.open = answer /\ next.merged = poll.merged
        /\ next.place = poll.place
        /\ next.line = poll.line /\ next.pr = poll.pr /\ next.got = poll.got
        /\ next.seen = seen /\ next.deaf = poll.deaf /\ next.calm = poll.calm
    BY <1>1, <1>3 DEF Poll
  <1> HIDE DEF next
  <1>5. poll' = next /\ UNCHANGED github
    BY <1>2 DEF Polls, next
  <1>6. AnswersHold' /\ StagesRight'
    BY <1>1, <1>3, <1>4, <1>5
    DEF IInv, Typed, OwnInv, AnswersHold, Own, Merged, StagesRight, github
  <1>7. ChecksWitnessed'
    <2>1. answer >= 0 => seen = check
      BY <1>2, IdleRight
    <2> QED
      BY <1>1, <1>4, <1>5, <2>1 DEF IInv, ChecksWitnessed, github
  <1>8. Polls(next)
    BY <1>2 DEF next
  <1> QED
    BY <1>1, <1>2, <1>4, <1>5, <1>6, <1>7, <1>8, NothingRead, PollKeeps

LEMMA FetchMergedKeeps ==
  ASSUME IInv, FetchMerged
  PROVE  IInv'
  <1>1. poll \in Poll /\ poll.at = "lists" /\ poll.got = {}
    BY DEF IInv, Typed, TypeOK, TurnInv, ReadInTurn, FetchMerged
  <1>2. PICK answer \in {Listed("merged"), Failed} :
          Polls([poll EXCEPT !.merged = answer]) /\ (Answers \/ Fails)
    BY DEF FetchMerged
  <1> DEFINE next == [poll EXCEPT !.merged = answer]
  <1>3. answer \in Answer /\ (answer > 0 => Merged(answer))
    <2>1. CASE answer = Failed
      BY <2>1, IdleRight
    <2>2. CASE answer = Listed("merged")
      <3>1. answer \in 0 .. MaxPulls /\ (answer # 0 => Merged(answer))
        BY <2>2, ListedHolds
      <3>2. answer \in Answer
        BY <3>1 DEF Answer
      <3> QED
        BY <3>1, <3>2
    <2> QED
      BY <1>2, <2>1, <2>2
  <1>4. /\ next \in Poll
        /\ next.at = poll.at /\ next.open = poll.open /\ next.merged = answer
        /\ next.place = poll.place
        /\ next.line = poll.line /\ next.pr = poll.pr /\ next.got = poll.got
        /\ next.seen = poll.seen /\ next.deaf = poll.deaf /\ next.calm = poll.calm
    BY <1>1, <1>3 DEF Poll
  <1>5. Polls(next)
    BY <1>2
  <1> HIDE DEF next
  <1>6. poll' = next /\ UNCHANGED github
    BY <1>5 DEF Polls
  <1>7. AnswersHold' /\ StagesRight'
    BY <1>1, <1>3, <1>4, <1>6
    DEF IInv, Typed, OwnInv, AnswersHold, Own, Merged, StagesRight, github
  <1>8. ChecksWitnessed'
    BY <1>1, <1>4, <1>6 DEF IInv, ChecksWitnessed, github
  <1> QED
    BY <1>1, <1>2, <1>4, <1>5, <1>6, <1>7, <1>8, NothingRead, PollKeeps

\* What settles the line of a poll, without a PR that is open and with one.
LEMMA SettledRight ==
  ASSUME NEW p \in Poll, NEW n \in 0 .. MaxPulls
  PROVE  /\ Settled(p, n) \in Poll
         /\ Settled(p, n).at = "comments" /\ Settled(p, n).place = p.place
         /\ Settled(p, n).line = (IF n = 0 THEN "no-pr" ELSE "merged") /\ Settled(p, n).pr = n
         /\ Settled(p, n).open = p.open /\ Settled(p, n).merged = p.merged
         /\ Settled(p, n).got = p.got /\ Settled(p, n).calm = p.calm /\ Settled(p, n).deaf = p.deaf
  BY DEF Settled, Poll

LEMMA DerivedRight ==
  ASSUME NEW p \in Poll, NEW n \in 0 .. MaxPulls, NEW grace
  PROVE  /\ Derived(p, n, grace) \in Poll
         /\ Derived(p, n, grace).at = "comments" /\ Derived(p, n, grace).place = p.place
         /\ Derived(p, n, grace).line \in {"pass", "fail", "pending"}
         /\ Derived(p, n, grace).line = "pass" => Green(p.seen)
         /\ Derived(p, n, grace).pr = n
         /\ Derived(p, n, grace).open = p.open /\ Derived(p, n, grace).merged = p.merged
         /\ Derived(p, n, grace).got = p.got
         /\ Derived(p, n, grace).calm = p.calm /\ Derived(p, n, grace).deaf = p.deaf
  <1> DEFINE ci == ProcessChecks(p.seen, grace)
             line == IF ci = "unknown" THEN "pending" ELSE ci
  <1>1. ci \in {"unknown", "pass", "fail", "pending"}
    BY DEF ProcessChecks
  <1>2. ci = "pass" => Green(p.seen)
    BY PassIsGreen
  <1>3. Derived(p, n, grace) = [p EXCEPT !.at = "comments", !.pr = n, !.line = line]
    BY DEF Derived
  <1>4. line \in {"pass", "fail", "pending"} /\ (line = "pass" => Green(p.seen))
    BY <1>1, <1>2
  <1> HIDE DEF line
  <1> QED
    BY <1>3, <1>4 DEF Poll

\* A poll that has come to its line, from a poll that had read no comment.
LEMMA LineKeeps ==
  ASSUME IInv, NEW next \in Poll, Polls(next), Answers \/ Fails,
         poll.at # "idle", poll.got = {}, poll.place = 1,
         next.at = "comments", next.got = {}, next.place = 1,
         next.open = poll.open, next.merged = poll.merged, next.calm = poll.calm,
         next.line = "merged" => Merged(next.pr),
         next.line \in {"open", "pass", "fail", "pending"} => Own(next.pr),
         next.line = "pass" => next.calm \/ next.deaf
  PROVE  IInv'
  <1>1. poll' = next /\ UNCHANGED github
    BY DEF Polls
  <1>2. AnswersHold'
    BY <1>1 DEF IInv, OwnInv, AnswersHold, Own, Merged, github
  <1>3. StagesRight'
    BY <1>1 DEF StagesRight, Places
  <1>4. ChecksWitnessed'
    BY <1>1 DEF IInv, ChecksWitnessed, github
  <1> QED
    BY <1>1, <1>2, <1>3, <1>4, NothingRead, PollKeeps

LEMMA JudgeListsKeeps ==
  ASSUME IInv, JudgeLists
  PROVE  IInv'
  <1>1. /\ poll \in Poll /\ poll.at = "lists" /\ poll.got = {} /\ poll.place = 1
        /\ Asked \notin {poll.open, poll.merged} /\ Answers
    BY DEF IInv, Typed, TypeOK, TurnInv, ReadInTurn, StagesRight, JudgeLists
  <1>2. CASE Failed \in {poll.open, poll.merged}
    <2> DEFINE next == [Idle EXCEPT !.at = "open", !.calm = poll.calm]
    <2>1. Polls(next)
      BY <1>2 DEF JudgeLists
    <2>2. /\ next \in Poll
          /\ next.at = "open" /\ next.open = Asked /\ next.merged = Asked /\ next.line = ""
          /\ next.place = 1 /\ next.got = {} /\ next.calm = poll.calm
      BY <1>1, IdleRight DEF Poll
    <2> HIDE DEF next
    <2>3. poll' = next /\ UNCHANGED github
      BY <2>1 DEF Polls
    <2>4. AnswersHold' /\ StagesRight'
      BY <2>2, <2>3, IdleRight DEF AnswersHold, StagesRight
    <2>5. ChecksWitnessed'
      BY <1>1, <2>2, <2>3, IdleRight DEF IInv, ChecksWitnessed, github
    <2> QED
      BY <1>1, <2>1, <2>2, <2>3, <2>4, <2>5, NothingRead, PollKeeps
  <1>3. CASE Failed \notin {poll.open, poll.merged}
    <2>1. poll.open \in 0 .. MaxPulls /\ poll.merged \in 0 .. MaxPulls
      BY <1>1, <1>3, IdleRight DEF Poll
    <2>2. CASE poll.open = 0
      <3> DEFINE next == Settled(poll, poll.merged)
      <3>1. Polls(next)
        BY <1>3, <2>2 DEF JudgeLists
      <3>2. /\ next \in Poll /\ next.at = "comments" /\ next.place = 1 /\ next.got = {}
            /\ next.open = poll.open /\ next.merged = poll.merged /\ next.calm = poll.calm
            /\ next.line \in {"no-pr", "merged"} /\ next.pr = poll.merged
            /\ next.line = "merged" => poll.merged # 0
        BY <1>1, <2>1, SettledRight
      <3>3. next.line = "merged" => Merged(next.pr)
        BY <2>1, <3>2, PullsAssumption DEF IInv, OwnInv, AnswersHold
      <3> HIDE DEF next
      <3> QED
        BY <1>1, <3>1, <3>2, <3>3, LineKeeps
    <2>3. ASSUME poll.open # 0, NEW grace \in Graces, Polls(Derived(poll, poll.open, grace))
          PROVE  IInv'
      <3> DEFINE next == Derived(poll, poll.open, grace)
      <3>1. /\ next \in Poll /\ next.at = "comments" /\ next.place = 1 /\ next.got = {}
            /\ next.open = poll.open /\ next.merged = poll.merged /\ next.calm = poll.calm
            /\ next.line \in {"pass", "fail", "pending"} /\ next.pr = poll.open
            /\ next.line = "pass" => Green(poll.seen)
        BY <1>1, <2>1, DerivedRight
      <3>2. Own(next.pr)
        BY <2>1, <2>3, <3>1, PullsAssumption DEF IInv, OwnInv, AnswersHold
      <3>3. next.line = "pass" => next.calm
        BY <1>1, <2>1, <3>1, PullsAssumption DEF IInv, ChecksWitnessed
      <3> HIDE DEF next
      <3> QED
        BY <1>1, <2>3, <3>1, <3>2, <3>3, LineKeeps DEF next
    <2> QED
      BY <1>3, <2>2, <2>3 DEF JudgeLists
  <1> QED
    BY <1>2, <1>3

\* A call that failed before a PR was found leaves the poll without a line.
LEMMA BlindKeeps ==
  ASSUME IInv, poll.at \notin {"idle", "comments", "ingest"}, Fails, Polls(Blind(poll))
  PROVE  IInv'
  <1> DEFINE next == Blind(poll)
  <1>1. /\ next \in Poll /\ next.at = "comments" /\ next.place = 1 /\ next.got = {}
        /\ next.open = poll.open /\ next.merged = poll.merged /\ next.calm = poll.calm
        /\ next.line = "" /\ poll.place = 1 /\ poll.got = {}
    <2>1. poll \in Poll /\ poll.place = 1 /\ poll.got = {} /\ 0 \in 0 .. MaxPulls
      BY PullsAssumption DEF IInv, Typed, TypeOK, StagesRight, TurnInv, ReadInTurn
    <2> QED
      BY <2>1 DEF Blind, Poll
  <1> HIDE DEF next
  <1> QED
    BY <1>1, LineKeeps DEF next

LEMMA ListOpenKeeps ==
  ASSUME IInv, ListOpen
  PROVE  IInv'
  <1>1. poll \in Poll /\ poll.at = "open" /\ poll.got = {} /\ poll.place = 1 /\ poll.merged = Asked
    BY DEF IInv, Typed, TypeOK, TurnInv, ReadInTurn, StagesRight, ListOpen
  <1>. PICK found : found = Listed("open")
    OBVIOUS
  <1> DEFINE next == [poll EXCEPT !.open = found, !.at = IF found = 0 THEN "merged" ELSE "item"]
  <1>2. CASE Answers /\ Polls(next)
    <2>1. found \in 0 .. MaxPulls /\ (found # 0 => Own(found)) /\ found \in Answer
      BY ListedHolds, IdleRight
    <2>2. /\ next \in Poll
          /\ next.at = (IF found = 0 THEN "merged" ELSE "item") /\ next.open = found
          /\ next.merged = Asked /\ next.line = poll.line /\ next.pr = poll.pr
          /\ next.place = 1 /\ next.got = {} /\ next.calm = poll.calm /\ next.deaf = poll.deaf
      BY <1>1, <2>1 DEF Poll
    <2>3. Polls(next)
      BY <1>2
    <2> HIDE DEF next
    <2>4. poll' = next /\ UNCHANGED github
      BY <2>3 DEF Polls
    <2>5. AnswersHold'
      <3>1. found # 0 => found > 0
        BY <2>1
      <3>2. ~(Asked > 0)
        BY IdleRight
      <3> QED
        BY <2>1, <2>2, <2>4, <3>1, <3>2 DEF IInv, OwnInv, AnswersHold, Own, Merged, github
    <2>7. StagesRight'
      BY <2>2, <2>4 DEF StagesRight
    <2>6. ChecksWitnessed'
      BY <1>1, <2>2, <2>4 DEF IInv, ChecksWitnessed, github
    <2> QED
      BY <1>2, <2>2, <2>3, <2>4, <2>5, <2>6, <2>7, NothingRead, PollKeeps
  <1>3. CASE Fails /\ Polls(Blind(poll))
    BY <1>1, <1>3, BlindKeeps
  <1> QED
    BY <1>2, <1>3 DEF ListOpen

LEMMA ListMergedKeeps ==
  ASSUME IInv, ListMerged
  PROVE  IInv'
  <1>1. poll \in Poll /\ poll.at = "merged" /\ poll.got = {} /\ poll.place = 1
    BY DEF IInv, Typed, TypeOK, TurnInv, ReadInTurn, StagesRight, ListMerged
  <1>2. CASE Answers /\ Polls(Settled(poll, Listed("merged")))
    <2> DEFINE found == Listed("merged")
               next == Settled(poll, found)
    <2>1. found \in 0 .. MaxPulls /\ (found # 0 => Merged(found))
      BY ListedHolds
    <2>2. Polls(next)
      BY <1>2
    <2> HIDE DEF found
    <2>3. /\ next \in Poll /\ next.at = "comments" /\ next.place = 1 /\ next.got = {}
          /\ next.open = poll.open /\ next.merged = poll.merged /\ next.calm = poll.calm
          /\ next.line \in {"no-pr", "merged"} /\ next.pr = found
          /\ next.line = "merged" => found # 0
      BY <1>1, <2>1, SettledRight
    <2> HIDE DEF next
    <2> QED
      BY <1>1, <1>2, <2>1, <2>2, <2>3, LineKeeps
  <1>3. CASE Fails /\ Polls(Blind(poll))
    BY <1>1, <1>3, BlindKeeps
  <1> QED
    BY <1>2, <1>3 DEF ListMerged

LEMMA ViewPrKeeps ==
  ASSUME IInv, ViewPr
  PROVE  IInv'
  <1>1. poll \in Poll /\ poll.at = "item" /\ poll.got = {}
    BY DEF IInv, Typed, TypeOK, TurnInv, ReadInTurn, ViewPr
  <1>2. PICK viewed \in {poll.open, Failed} :
          Polls([poll EXCEPT !.viewed = viewed]) /\ (Answers \/ Fails)
    BY DEF ViewPr
  <1> DEFINE next == [poll EXCEPT !.viewed = viewed]
  <1>3. /\ next \in Poll
        /\ next.at = poll.at /\ next.open = poll.open /\ next.merged = poll.merged
        /\ next.place = poll.place /\ next.seen = poll.seen
        /\ next.line = poll.line /\ next.pr = poll.pr /\ next.got = poll.got
        /\ next.deaf = poll.deaf /\ next.calm = poll.calm
    BY <1>1, IdleRight DEF Poll
  <1>4. Polls(next)
    BY <1>2
  <1> HIDE DEF next
  <1>5. poll' = next /\ UNCHANGED github
    BY <1>4 DEF Polls
  <1>6. AnswersHold' /\ StagesRight'
    BY <1>3, <1>5 DEF IInv, Typed, OwnInv, AnswersHold, Own, Merged, StagesRight, github
  <1>7. ChecksWitnessed'
    BY <1>3, <1>5 DEF IInv, ChecksWitnessed, github
  <1> QED
    BY <1>1, <1>2, <1>3, <1>4, <1>5, <1>6, <1>7, NothingRead, PollKeeps

LEMMA ReadChecksKeeps ==
  ASSUME IInv, ReadChecks
  PROVE  IInv'
  <1>1. /\ poll \in Poll /\ poll.at = "item" /\ poll.got = {} /\ poll.open > 0
        /\ check \in [Checks -> CheckStates]
    BY DEF IInv, Typed, TypeOK, OwnInv, AnswersHold, TurnInv, ReadInTurn, ReadChecks
  <1>2. PICK seen \in {check, poll.seen}, deaf \in {poll.deaf, TRUE} :
          /\ Polls([poll EXCEPT !.merged = 0, !.seen = seen, !.deaf = deaf])
          /\ Answers \/ Fails
          /\ seen = check \/ deaf
    <2>1. CASE Answers /\ Polls([poll EXCEPT !.merged = 0, !.seen = check])
      <3>1. [poll EXCEPT !.merged = 0, !.seen = check]
              = [poll EXCEPT !.merged = 0, !.seen = check, !.deaf = poll.deaf]
        BY <1>1 DEF Poll
      <3> QED
        BY <2>1, <3>1
    <2>2. CASE Fails /\ Polls([poll EXCEPT !.merged = 0, !.deaf = TRUE])
      <3>1. [poll EXCEPT !.merged = 0, !.deaf = TRUE]
              = [poll EXCEPT !.merged = 0, !.seen = poll.seen, !.deaf = TRUE]
        BY <1>1 DEF Poll
      <3> QED
        BY <2>2, <3>1
    <2> QED
      BY <2>1, <2>2 DEF ReadChecks
  <1> DEFINE next == [poll EXCEPT !.merged = 0, !.seen = seen, !.deaf = deaf]
  <1>3. 0 \in Answer /\ seen \in [Checks -> CheckStates] /\ deaf \in BOOLEAN
    BY <1>1, <1>2, PullsAssumption, IdleRight DEF Poll
  <1>4. /\ next \in Poll
        /\ next.at = "item" /\ next.open = poll.open /\ next.merged = 0
        /\ next.place = poll.place /\ next.seen = seen
        /\ next.line = poll.line /\ next.pr = poll.pr /\ next.got = poll.got
        /\ next.deaf = deaf /\ next.calm = poll.calm /\ (poll.deaf => deaf)
    BY <1>1, <1>2, <1>3 DEF Poll
  <1>5. Polls(next)
    BY <1>2
  <1> HIDE DEF next
  <1>6. poll' = next /\ UNCHANGED github
    BY <1>5 DEF Polls
  <1>7. AnswersHold' /\ StagesRight'
    BY <1>1, <1>4, <1>6 DEF IInv, Typed, OwnInv, AnswersHold, Own, Merged, StagesRight, github
  <1>8. ChecksWitnessed'
    BY <1>1, <1>2, <1>4, <1>6 DEF IInv, ChecksWitnessed, github
  <1> QED
    BY <1>1, <1>2, <1>4, <1>5, <1>6, <1>7, <1>8, NothingRead, PollKeeps

LEMMA JudgePrKeeps ==
  ASSUME IInv, JudgePr
  PROVE  IInv'
  <1>1. /\ poll \in Poll /\ poll.at = "item" /\ poll.got = {} /\ poll.place = 1
        /\ poll.open > 0 /\ Own(poll.open) /\ poll.merged # Asked /\ Answers
        /\ Green(poll.seen) => poll.calm \/ poll.deaf
    BY DEF IInv, Typed, TypeOK, OwnInv, AnswersHold, ChecksWitnessed, TurnInv, ReadInTurn,
           StagesRight, JudgePr
  <1>2. poll.open \in 0 .. MaxPulls
    BY <1>1, PullsAssumption DEF Own, IInv, Typed, TypeOK
  <1>3. CASE Polls([poll EXCEPT !.at = "comments", !.line = "open", !.pr = poll.open])
    <2> DEFINE next == [poll EXCEPT !.at = "comments", !.line = "open", !.pr = poll.open]
    <2>1. /\ next \in Poll /\ next.at = "comments" /\ next.place = 1 /\ next.got = {}
          /\ next.open = poll.open /\ next.merged = poll.merged /\ next.calm = poll.calm
          /\ next.line = "open" /\ next.pr = poll.open
      BY <1>1, <1>2 DEF Poll
    <2>2. Polls(next)
      BY <1>3
    <2> HIDE DEF next
    <2> QED
      BY <1>1, <2>1, <2>2, LineKeeps
  <1>4. ASSUME NEW grace \in Graces, Polls(Derived(poll, poll.open, grace))
        PROVE  IInv'
    <2> DEFINE next == Derived(poll, poll.open, grace)
    <2>1. /\ next \in Poll /\ next.at = "comments" /\ next.place = 1 /\ next.got = {}
          /\ next.open = poll.open /\ next.merged = poll.merged /\ next.calm = poll.calm
          /\ next.line \in {"pass", "fail", "pending"} /\ next.pr = poll.open
          /\ next.line = "pass" => Green(poll.seen)
          /\ next.deaf = poll.deaf
      BY <1>1, <1>2, DerivedRight
    <2> HIDE DEF next
    <2> QED
      BY <1>1, <1>4, <2>1, LineKeeps DEF next
  <1> QED
    BY <1>3, <1>4 DEF JudgePr

-----------------------------------------------------------------------------
(* Comments *)

\* The poll keeps its line and answers; only what it has read of comments may grow.
LEMMA CommentsKeep ==
  ASSUME IInv, NEW next \in Poll, Polls(next), Answers \/ Fails, poll.at = "comments",
         next.at \in {"comments", "ingest"},
         next.open = poll.open, next.merged = poll.merged, next.line = poll.line,
         next.pr = poll.pr, next.calm = poll.calm, next.deaf = poll.deaf,
         next.at = "comments" => next.place \in 1 .. Len(Places),
         ReadInTurn'
  PROVE  IInv'
  <1>1. poll' = next /\ UNCHANGED github
    BY DEF Polls
  <1>2. AnswersHold'
    BY <1>1 DEF IInv, OwnInv, AnswersHold, Own, Merged, github
  <1>3. StagesRight'
    BY <1>1 DEF StagesRight
  <1>4. ChecksWitnessed'
    BY <1>1 DEF IInv, ChecksWitnessed, github
  <1> QED
    BY <1>1, <1>2, <1>3, <1>4, PollKeeps

LEMMA SkipCommentsKeeps ==
  ASSUME IInv, SkipComments \/ NoOwner
  PROVE  IInv'
  <1> DEFINE next == [poll EXCEPT !.at = "ingest"]
  <1>1. poll \in Poll /\ poll.at = "comments" /\ ReadInTurn
    BY DEF IInv, Typed, TypeOK, TurnInv, SkipComments, NoOwner
  <1>2. /\ next \in Poll /\ next.at = "ingest" /\ next.got = poll.got
        /\ next.open = poll.open /\ next.merged = poll.merged /\ next.line = poll.line
        /\ next.pr = poll.pr /\ next.calm = poll.calm /\ next.deaf = poll.deaf
    BY <1>1 DEF Poll
  <1>3. Polls(next) /\ (Answers \/ Fails)
    BY DEF SkipComments, NoOwner
  <1> HIDE DEF next
  <1>4. ReadInTurn'
    BY <1>1, <1>2, <1>3 DEF Polls, github, loop, ReadInTurn, Since
  <1> QED
    BY <1>1, <1>2, <1>3, <1>4, CommentsKeep

LEMMA ReadPlaceKeeps ==
  ASSUME IInv, ReadPlace
  PROVE  IInv'
  <1>1. /\ poll \in Poll /\ poll.at = "comments" /\ ReadInTurn /\ poll.place \in 1 .. Len(Places)
        /\ comments \in Seq(Comment) /\ Len(comments) <= MaxComments /\ item.mark \in Nat
    BY DEF IInv, Typed, TypeOK, StagesRight, TurnInv, ReadPlace, Item
  <1>. PICK place : place = Places[poll.place]
    OBVIOUS
  <1>. PICK read : read = AtPlace(place)
    OBVIOUS
  <1>2. PICK more \in {{}, read} :
          /\ Polls([poll EXCEPT !.place = @ + 1,
                                !.at = IF poll.place = Len(Places) THEN "ingest" ELSE @,
                                !.got = @ \cup more])
          /\ Answers \/ Fails
    <2> DEFINE on == [poll EXCEPT !.place = @ + 1,
                                  !.at = IF poll.place = Len(Places) THEN "ingest" ELSE @]
    <2>1. CASE Answers /\ Polls([on EXCEPT !.got = @ \cup AtPlace(Places[poll.place])])
      <3>1. [on EXCEPT !.got = @ \cup read]
              = [poll EXCEPT !.place = @ + 1,
                             !.at = IF poll.place = Len(Places) THEN "ingest" ELSE @,
                             !.got = @ \cup read]
        BY <1>1 DEF Poll
      <3> QED
        BY <2>1, <3>1
    <2>2. CASE Fails /\ Polls(on)
      <3>1. on = [poll EXCEPT !.place = @ + 1,
                             !.at = IF poll.place = Len(Places) THEN "ingest" ELSE @,
                             !.got = @ \cup {}]
        BY <1>1 DEF Poll
      <3> QED
        BY <2>2, <3>1
    <2> QED
      BY <2>1, <2>2 DEF ReadPlace
  <1> DEFINE next == [poll EXCEPT !.place = @ + 1,
                                  !.at = IF poll.place = Len(Places) THEN "ingest" ELSE @,
                                  !.got = @ \cup more]
  <1>3. /\ read \subseteq DOMAIN comments
        /\ \A c \in DOMAIN comments : c \in read <=> comments[c].place = place /\ Since(c)
        /\ \A c \in read : comments[c].place = place
    BY DEF AtPlace
  <1>4. next \in Poll /\ next.got = poll.got \cup more
        /\ next.at = (IF poll.place = Len(Places) THEN "ingest" ELSE "comments")
        /\ next.place = poll.place + 1
        /\ next.open = poll.open /\ next.merged = poll.merged /\ next.line = poll.line
        /\ next.pr = poll.pr /\ next.calm = poll.calm /\ next.deaf = poll.deaf
    <2>1. poll.got \cup more \in SUBSET (1 .. MaxComments)
      BY <1>1, <1>3, PullsAssumption DEF ReadInTurn
    <2>2. poll.place + 1 \in 1 .. Len(Places) + 1
      BY <1>1 DEF Places
    <2> QED
      BY <1>1, <2>1, <2>2 DEF Poll
  <1>5. Polls(next)
    BY <1>2
  <1> HIDE DEF next
  <1>6. poll' = next /\ UNCHANGED <<comments, item>>
    BY <1>5 DEF Polls, github, loop
  <1>7. \A c \in DOMAIN comments : Since(c) => comments[c].at > item.mark
    <2>1. \A c \in DOMAIN comments : comments[c].at \in 1 .. MaxSeconds
      <3>1. \A c \in DOMAIN comments : comments[c] \in Comment
        BY <1>1
      <3> QED
        BY <3>1 DEF Comment
    <2> QED
      BY <1>1, <2>1, PullsAssumption DEF Since
  <1>8. \A c : Since(c) <=> Since(c)'
    BY <1>6 DEF Since
  <1>9. \A d \in poll.got \cup more, c \in DOMAIN comments \ (poll.got \cup more) :
          Since(c) /\ comments[c].place = comments[d].place => comments[d].at <= comments[c].at
    <2> TAKE d \in poll.got \cup more, c \in DOMAIN comments \ (poll.got \cup more)
    <2>1. CASE d \in poll.got
      BY <1>1, <2>1 DEF ReadInTurn
    <2>2. CASE d \in more
      BY <1>3, <2>2
    <2> QED
      BY <2>1, <2>2
  <1>10. ReadInTurn'
    <2>1. poll'.got \subseteq DOMAIN comments'
      BY <1>1, <1>3, <1>4, <1>6 DEF ReadInTurn
    <2>2. \A c \in poll'.got : comments'[c].at > item'.mark
      BY <1>1, <1>3, <1>4, <1>6, <1>7 DEF ReadInTurn
    <2>3. poll'.at \in {"comments", "ingest"}
      BY <1>4, <1>6
    <2> QED
      BY <1>4, <1>6, <1>8, <1>9, <2>1, <2>2, <2>3 DEF ReadInTurn
  <1>11. next.at = "comments" => next.place \in 1 .. Len(Places)
    BY <1>1, <1>4 DEF Places
  <1> QED
    BY <1>1, <1>2, <1>4, <1>5, <1>10, <1>11, CommentsKeep

-----------------------------------------------------------------------------
(* What the loop takes up *)

\* A merge that is seen is a merge of the item's own PR.
LEMMA SeenIsOwn ==
  ASSUME IInv, MergeSeen
  PROVE  Own(poll.pr) /\ Merged(poll.pr)
  <1>1. Merged(poll.pr) /\ OwnersTell /\ KeepsOwn
    BY DEF IInv, OwnInv, AnswersHold, MergeSeen
  <1>2. poll.pr # 0
    BY <1>1 DEF Merged, IInv, Typed, TypeOK
  <1> QED
    BY <1>1, <1>2 DEF MergeSeen, KeepsOwn, OwnersTell, Own, Merged

\* The PR a snapshot shows as open is the item's.
LEMMA ShownIsOwn ==
  ASSUME IInv, ShownOpen # 0
  PROVE  Own(ShownOpen)
  BY DEF IInv, OwnInv, AnswersHold, KeepsOwn, ShownOpen

\* After a poll is taken up there is nothing to say of it.
LEMMA TakenUp ==
  ASSUME poll' = Idle
  PROVE  poll' \in Poll /\ AnswersHold' /\ StagesRight' /\ ChecksWitnessed' /\ ReadInTurn'
  <1>1. AnswersHold' /\ StagesRight' /\ ChecksWitnessed'
    BY IdleRight DEF AnswersHold, StagesRight, ChecksWitnessed
  <1>2. ReadInTurn'
    BY IdleRight, NothingRead
  <1> QED
    BY IdleRight, <1>1, <1>2

LEMMA InterceptMergeKeeps ==
  ASSUME IInv, InterceptMerge, poll' = Idle, UNCHANGED <<github, budget>>
  PROVE  IInv'
  <1> USE DEF github
  <1>1. TypeOK /\ OwnInv /\ TurnInv
    BY DEF IInv, Typed
  <1>2. Own(poll.pr) /\ Merged(poll.pr)
    BY SeenIsOwn DEF InterceptMerge
  <1>3. /\ item' \in Item /\ item'.state = "merged" /\ item'.mark = item.mark
        /\ item'.pr = (IF item.pr = 0 THEN poll.pr ELSE item.pr)
    <2>1. item \in Item /\ clock \in 0 .. MaxSeconds
      BY <1>1, PullsAssumption DEF TypeOK
    <2>2. poll.pr \in 0 .. MaxPulls
      BY <1>1 DEF TypeOK, Poll
    <2>3. "merged" \in States
      BY DEF States
    <2> QED
      BY <2>1, <2>2, <2>3 DEF InterceptMerge, Item
  <1>4. TypeOK'
    BY <1>1, <1>3, TakenUp DEF TypeOK, InterceptMerge
  <1>5. OwnersTell' /\ KeepsOwn'
    BY <1>1, <1>2, <1>3 DEF OwnInv, OwnersTell, KeepsOwn, OwnMergeOnly, Own, Merged
  <1>6. InTurn' /\ Stamped'
    BY <1>1, <1>3 DEF InterceptMerge, TurnInv, InTurn, ToldInTurn, Stamped
  <1> QED
    BY <1>4, <1>5, <1>6, TakenUp DEF IInv, Typed, OwnInv, TurnInv

LEMMA IngestKeeps ==
  ASSUME IInv, Ingest, poll' = Idle, UNCHANGED <<github, budget>>
  PROVE  IInv'
  <1> USE DEF github
  <1>1. TypeOK /\ OwnInv /\ TurnInv
    BY DEF IInv, Typed
  <1>2. PICK state \in Moves :
          item' = [item EXCEPT !.state = state, !.mark = Mark,
                               !.since = IF state = item.state THEN @ ELSE clock,
                               !.pr = IF item.state = "implementing" /\ ShownOpen # 0
                                      THEN ShownOpen ELSE @]
    BY DEF Ingest
  <1>3. state \in States /\ (state = "merged" => item.state = "merged")
    BY <1>1, <1>2 DEF Moves, States, TypeOK, Item
  <1>4. ShownOpen \in 0 .. MaxPulls
    <2>1. CASE ShownOpen = 0
      BY <2>1, PullsAssumption
    <2>2. CASE ShownOpen # 0
      BY <1>1, <2>2, ShownIsOwn, PullsAssumption DEF Own, TypeOK
    <2> QED
      BY <2>1, <2>2
  <1>5. Mark \in 0 .. MaxSeconds
    BY MarkRight
  <1>6. /\ item' \in Item /\ item'.state = state /\ item'.mark = Mark
        /\ item'.pr \in {item.pr, ShownOpen} /\ (item'.pr # item.pr => ShownOpen # 0)
    <2>1. item \in Item /\ clock \in 0 .. MaxSeconds
      BY <1>1, PullsAssumption DEF TypeOK
    <2>2. (IF item.state = "implementing" /\ ShownOpen # 0 THEN ShownOpen ELSE item.pr) \in 0 .. MaxPulls
      BY <2>1, <1>4 DEF Item
    <2> QED
      BY <1>2, <1>3, <1>5, <2>1, <2>2 DEF Item
  <1>7. Humans \subseteq poll.got /\ poll.got \subseteq DOMAIN comments
    BY <1>1 DEF Humans, TurnInv, ReadInTurn
  <1>8. TypeOK'
    <2>1. batch' \subseteq DOMAIN comments /\ relay' \subseteq DOMAIN comments
          /\ told' \subseteq DOMAIN comments
      BY <1>1, <1>7 DEF Ingest, Feedback, TypeOK
    <2> QED
      BY <1>1, <1>6, <2>1, TakenUp DEF TypeOK
  <1>9. OwnersTell' /\ KeepsOwn'
    <2>1. item'.pr # 0 => Own(item'.pr)
      BY <1>1, <1>6, ShownIsOwn DEF OwnInv, KeepsOwn
    <2> QED
      BY <1>1, <1>3, <1>6, <2>1 DEF OwnInv, OwnersTell, KeepsOwn, OwnMergeOnly, Own
  <1>10. InTurn' /\ Stamped'
    <2>1. \A c \in Humans : comments[c].at > item.mark /\ comments[c].at <= Mark
      BY <1>1, <1>7, MarkRight DEF TurnInv, ReadInTurn
    <2>2. /\ item.mark \in Nat /\ Mark \in Nat /\ item.mark <= Mark
          /\ \A c \in DOMAIN comments : comments[c].at \in Nat
      <3>1. \A c \in DOMAIN comments : comments[c] \in Comment
        BY <1>1 DEF TypeOK
      <3> QED
        BY <1>1, <1>5, <3>1, MarkRight, PullsAssumption DEF TypeOK, Item, Comment
    <2>3. \A c \in batch \cup relay \cup told : c \in DOMAIN comments
      BY <1>1 DEF TypeOK
    <2>4. CASE batch' = batch \cup Humans /\ UNCHANGED <<relay, told>>
      <3>1. \A d \in told \cup relay, c \in batch \cup Humans : comments[d].at < comments[c].at
        BY <1>1, <1>7, <2>1, <2>2, <2>3 DEF TurnInv, InTurn
      <3>2. \A c \in batch \cup Humans \cup relay \cup told : comments[c].at <= Mark
        BY <1>1, <1>7, <2>1, <2>2, <2>3 DEF TurnInv, InTurn
      <3> QED
        BY <1>1, <1>6, <2>4, <3>1, <3>2 DEF TurnInv, InTurn, ToldInTurn, Stamped
    <2>5. CASE told' = told \cup relay /\ relay' = batch /\ batch' = {}
      <3>1. \A c \in batch \cup relay \cup told : comments[c].at <= Mark
        BY <1>1, <2>2, <2>3 DEF TurnInv, InTurn
      <3> QED
        BY <1>1, <1>6, <2>5, <3>1 DEF TurnInv, InTurn, ToldInTurn, Stamped
    <2> QED
      BY <2>4, <2>5 DEF Ingest, Feedback
  <1> QED
    BY <1>8, <1>9, <1>10, TakenUp DEF IInv, Typed, OwnInv, TurnInv

-----------------------------------------------------------------------------
(* The theorems *)

LEMMA NextKeeps == IInv /\ [Next]_vars => IInv'
  <1> SUFFICES ASSUME IInv, [Next]_vars PROVE IInv'
    OBVIOUS
  <1>1. CASE World
    BY <1>1, WorldKeeps
  <1>2. CASE StartPoll \/ FetchOpen \/ FetchMerged \/ JudgeLists
    BY <1>2, StartPollKeeps, FetchOpenKeeps, FetchMergedKeeps, JudgeListsKeeps
  <1>3. CASE ListOpen \/ ListMerged \/ ViewPr \/ ReadChecks \/ JudgePr
    BY <1>3, ListOpenKeeps, ListMergedKeeps, ViewPrKeeps, ReadChecksKeeps, JudgePrKeeps
  <1>4. CASE SkipComments \/ NoOwner \/ ReadPlace
    BY <1>4, SkipCommentsKeeps, ReadPlaceKeeps
  <1>5. CASE TakesUp
    BY <1>5, InterceptMergeKeeps, IngestKeeps DEF TakesUp
  <1>6. CASE UNCHANGED vars
    <2>1. TypeOK' /\ StagesRight'
      BY <1>6 DEF vars, IInv, Typed, TypeOK, StagesRight
    <2>2. OwnInv' /\ ChecksWitnessed'
      BY <1>6 DEF vars, IInv, OwnInv, OwnersTell, AnswersHold, KeepsOwn, OwnMergeOnly, Own, Merged,
                  ChecksWitnessed, Green
    <2>3. TurnInv'
      BY <1>6, TurnStays DEF vars, loop, IInv
    <2> QED
      BY <2>1, <2>2, <2>3 DEF IInv, Typed
  <1> QED
    BY <1>1, <1>2, <1>3, <1>4, <1>5, <1>6 DEF Next, PollStep

LEMMA AlwaysIInv == Spec => []IInv
  BY InitIInv, NextKeeps, PTL DEF Spec

\* The variables keep their types: no number of a PR, a comment or a second is held that
\* GitHub has not given out, however calls fail.
THEOREM TypesKept == Spec => []TypeOK
  <1>1. IInv => TypeOK
    BY DEF IInv, Typed
  <1> QED
    BY <1>1, AlwaysIInv, PTL

\* OwnMergeOnly: an item is taken for merged (interceptExternalMerge) only when a PR that was
\* opened for it has been merged, although the lists of a poll name PRs by their branch.
THEOREM OnlyOwnMerges == Spec => []OwnMergeOnly
  <1>1. IInv => OwnMergeOnly
    BY DEF IInv, OwnInv, KeepsOwn
  <1> QED
    BY <1>1, AlwaysIInv, PTL

\* PassIsEarned: the state machine goes on from CI as passed only after a moment of the poll
\* at which no relevant check was other than green, or after a gh pr checks that failed.
THEOREM PassesAreEarned == Spec => PassIsEarned
  <1> DEFINE Earned == item.state \notin {"ci-passed", "merging"}
                         /\ item'.state \in {"ci-passed", "merging"} => poll.calm \/ poll.deaf
  <1>1. IInv /\ [Next]_vars => [Earned]_vars
    <2> SUFFICES ASSUME IInv, Next, item.state \notin {"ci-passed", "merging"},
                        item'.state \in {"ci-passed", "merging"}
                 PROVE  poll.calm \/ poll.deaf
      OBVIOUS
    <2>1. item' # item
      OBVIOUS
    <2>2. Ingest
      <3>1. World => UNCHANGED item
        BY DEF World, OpenPr, ReportPr, EndPr, CheckRuns, Post, Tick, PrAges, Happens, loop
      <3>2. StartPoll \/ FetchOpen \/ FetchMerged \/ JudgeLists \/ ListOpen \/ ListMerged
              \/ ViewPr \/ ReadChecks \/ JudgePr \/ SkipComments \/ NoOwner \/ ReadPlace
              => UNCHANGED item
        BY DEF StartPoll, FetchOpen, FetchMerged, JudgeLists, ListOpen, ListMerged, ViewPr,
               ReadChecks, JudgePr, SkipComments, NoOwner, ReadPlace, Polls, loop
      <3>3. item \in Item
        BY DEF IInv, Typed, TypeOK
      <3>4. ~InterceptMerge
        BY <3>3 DEF InterceptMerge, Item
      <3> QED
        BY <2>1, <3>1, <3>2, <3>4 DEF Next, PollStep, TakesUp
    <2>3. item'.state \in Moves
      <3>1. item \in Item
        BY DEF IInv, Typed, TypeOK
      <3> QED
        BY <2>2, <3>1 DEF Ingest, Item
    <2>4. poll.line = "pass"
      BY <2>3 DEF Moves
    <2> QED
      BY <2>4 DEF IInv, ChecksWitnessed
  <1> QED
    BY <1>1, AlwaysIInv, PTL DEF Spec, PassIsEarned

\* CommentsInTurn: comments are handed to the worker in the order of their stamps and never
\* twice, and one that the mark passes over unread (an endpoint that failed, or that was
\* read before it was posted) has one from elsewhere, no older, in its place.
THEOREM CommentsAreInTurn == Spec => CommentsInTurn
  <1> DEFINE Replaced ==
               item'.mark # item.mark =>
                 \A c \in DOMAIN comments \ poll.got :
                   Since(c) /\ comments[c].at <= item'.mark =>
                     \E d \in poll.got : /\ comments[d].at >= comments[c].at
                                         /\ \/ comments[d].place # comments[c].place
                                            \/ comments[d].at = comments[c].at
  <1>1. IInv => ToldInTurn
    BY DEF IInv, TurnInv, InTurn
  <1>2. IInv /\ [Next]_vars => [Replaced]_vars
    <2> SUFFICES ASSUME IInv, Next, item'.mark # item.mark,
                        NEW c \in DOMAIN comments \ poll.got,
                        Since(c), comments[c].at <= item'.mark
                 PROVE  \E d \in poll.got : /\ comments[d].at >= comments[c].at
                                            /\ \/ comments[d].place # comments[c].place
                                               \/ comments[d].at = comments[c].at
      OBVIOUS
    <2>1. item' # item /\ item \in Item
      BY DEF IInv, Typed, TypeOK
    <2>2. Ingest
      <3>1. World => UNCHANGED item
        BY DEF World, OpenPr, ReportPr, EndPr, CheckRuns, Post, Tick, PrAges, Happens, loop
      <3>2. StartPoll \/ FetchOpen \/ FetchMerged \/ JudgeLists \/ ListOpen \/ ListMerged
              \/ ViewPr \/ ReadChecks \/ JudgePr \/ SkipComments \/ NoOwner \/ ReadPlace
              => UNCHANGED item
        BY DEF StartPoll, FetchOpen, FetchMerged, JudgeLists, ListOpen, ListMerged, ViewPr,
               ReadChecks, JudgePr, SkipComments, NoOwner, ReadPlace, Polls, loop
      <3>3. ~InterceptMerge
        BY <2>1 DEF InterceptMerge, Item
      <3> QED
        BY <2>1, <3>1, <3>2, <3>3 DEF Next, PollStep, TakesUp
    <2>3. item'.mark = Mark
      BY <2>1, <2>2 DEF Ingest, Item
    <2>4. PICK d \in poll.got : comments[d].at = Mark
      BY <2>3, MarkRight
    <2>5. comments[c].at \in Nat /\ comments[d].at \in Nat
      <3>1. c \in DOMAIN comments /\ d \in DOMAIN comments
        BY DEF IInv, TurnInv, ReadInTurn
      <3>2. comments[c] \in Comment /\ comments[d] \in Comment
        BY <3>1 DEF IInv, Typed, TypeOK
      <3> QED
        BY <3>2 DEF Comment
    <2>6. comments[d].place = comments[c].place => comments[d].at <= comments[c].at
      BY DEF IInv, TurnInv, ReadInTurn
    <2> QED
      BY <2>3, <2>4, <2>5, <2>6
  <1> QED
    BY <1>1, <1>2, AlwaysIInv, PTL DEF Spec, CommentsInTurn, PassedOverForAnother
=============================================================================
