----------------------- MODULE IdempotentCommands_proof -----------------------
(***************************************************************************)
(* Proofs about IdempotentCommands, for every number of calls, attempts and*)
(* every lifetime.  The inductive invariant says what a transaction that   *)
(* has written its receipt may rely on: it is the only one, its snapshot is*)
(* still the committed state, and every effect in it is over.              *)
(***************************************************************************)
EXTENDS IdempotentCommands, TLAPS

(* The lifetimes of all effects have ended at t.                           *)
Over(t) == \A e \in effects : e.at + Ttl <= t

(* Attempts are counted from one, and only a started call counts.          *)
Counted == \A c \in Calls :
  IF phase[c] = "new" THEN attempt[c] = 0 ELSE attempt[c] \in 1..MaxAttempts

(* Which transactions may have written something, by phase and commit.     *)
Quiet == \A c \in Calls :
  /\ phase[c] \in Open \cup {"new", "duplicate"} => commit[c] = "none"
  /\ phase[c] = "committing" => commit[c] # "none"
  /\ commit[c] # "sent" => work[c] = {}
  /\ commit[c] # "sent" /\ phase[c] # "inserted" => draft[c] = {}

(* A commit under way carries a completed receipt and its effect, or       *)
(* nothing at all.                                                         *)
Carries(c) ==
  \/ draft[c] = {} /\ work[c] = {}
  \/ \E t \in 0..now :
       /\ Over(t)
       /\ work[c] = {[by |-> Id(c), request |-> RequestOf[c], at |-> t]}
       /\ draft[c] = {[by |-> Id(c), request |-> RequestOf[c],
                       state |-> "completed", expires |-> t + Ttl]}

Sent == \A c \in Calls : commit[c] = "sent" => Carries(c)

(* Where a transaction has inserted its receipt and not completed it.      *)
Inserted == \A c \in Calls : phase[c] = "inserted" =>
  \E x \in 0..(now + Ttl) : draft[c] = {[by |-> Id(c), request |-> RequestOf[c],
                              state |-> "in_progress", expires |-> x]}

(* No two transactions have written the receipt.                          *)
OneWriter == \A c, d \in Calls : draft[c] # {} /\ draft[d] # {} => c = d

(* Nobody commits a receipt under the transaction that has written one, and*)
(* all effects before its own are over.                                    *)
Undisturbed == \A c \in Calls : draft[c] # {} => receipts = seen[c] /\ Over(now)

(* A call goes on from its look only past expired receipts.                *)
Looked == \A c \in Calls : phase[c] = "looked" => \A r \in seen[c] : r.expires <= now

(* A committed receipt is completed and tells of an effect.                *)
ReceiptsRecordEffects == \A r \in receipts :
  /\ r.state = "completed"
  /\ \E e \in effects : e.by = r.by /\ e.request = r.request /\ r.expires = e.at + Ttl

(* What run() is about to return is in the store, or in the transaction.   *)
Committed(c) == \E e \in effects : response[c] = {e.by} /\ e.request = RequestOf[c]

Promised == \A c \in Calls :
  phase[c] = "committing" /\ commit[c] # "lost" =>
    (draft[c] # {} /\ response[c] = {Id(c)}) \/ Committed(c)

NotInProgress == \A c \in Calls : phase[c] # "inProgress"

Inv ==
  /\ TypeOK
  /\ Counted /\ Quiet /\ Sent /\ Inserted /\ OneWriter /\ Undisturbed /\ Looked
  /\ ReceiptsRecordEffects /\ EffectsHaveReceipts /\ OncePerLifetime
  /\ Promised /\ AnswersAreDurable /\ NotInProgress

-----------------------------------------------------------------------------
(* The steps.                                                              *)

(* Completing the receipt of a transaction that has inserted it.           *)
LEMMA CompletedDraft ==
  ASSUME NEW c \in Calls, TypeOK, Inserted, phase[c] = "inserted"
  PROVE  /\ draft[c] # {}
         /\ Completed(c) = {[by |-> Id(c), request |-> RequestOf[c],
                             state |-> "completed", expires |-> now + Ttl]}
  <1>1. PICK x \in 0..(now + Ttl) :
          draft[c] = {[by |-> Id(c), request |-> RequestOf[c],
                       state |-> "in_progress", expires |-> x]}
    BY DEF Inserted
  <1> QED BY <1>1 DEF Completed

(* What a commit under way carries, steps of others do not change.         *)
LEMMA CarriesStays ==
  ASSUME NEW x \in Calls, Carries(x), UNCHANGED <<now, effects, draft[x], work[x], attempt[x]>>
  PROVE  Carries(x)'
  BY DEF Carries, Over, Id

(* Every step preserves the invariant.                                     *)
LEMMA StepPreserves == Inv /\ [Next]_vars => Inv'
  <1> SUFFICES ASSUME Inv, [Next]_vars PROVE Inv'
    OBVIOUS
  <1> USE ConstantsAssumption DEF Inv
  <1>1. ASSUME NEW c \in Calls, Start(c) PROVE Inv'
    <2>1. TypeOK' /\ Counted'
      BY <1>1 DEF Start, Begin, Goto, TypeOK, Counted, Open, Working, Ended, Ids,
        Id, Receipts, Effects, Quiet, store, transaction
    <2>2. Quiet' /\ OneWriter' /\ Undisturbed'
      BY <1>1 DEF Start, Begin, Goto, TypeOK, Quiet, Open, Working, Ended,
        OneWriter, Undisturbed, Over, store, transaction
    <2>3. Inserted'
      BY <1>1 DEF Start, Begin, Goto, TypeOK, Quiet, Inserted, Id, Open, Working,
        store, transaction
    <2>4. Sent'
      <3>1. ASSUME NEW x \in Calls, x # c
            PROVE  UNCHANGED <<now, effects, draft[x], work[x], attempt[x], commit[x]>>
        BY <1>1, <3>1 DEF Start, Begin, Goto, TypeOK, store, transaction
      <3>2. commit'[c] # "sent"
        BY <1>1 DEF Start, Begin, Goto, TypeOK
      <3> QED BY <3>1, <3>2, CarriesStays DEF Sent
    <2>5. Looked' /\ NotInProgress'
      BY <1>1 DEF Start, Begin, Goto, TypeOK, Looked, Open, Working, Receipts,
        NotInProgress, ReceiptsRecordEffects, store, transaction
    <2>6. Promised' /\ AnswersAreDurable'
      BY <1>1 DEF Start, Begin, Goto, TypeOK, Quiet, Promised, Committed, Id,
        Open, Working, AnswersAreDurable, ReceiptsRecordEffects, store,
        transaction
    <2>7. (ReceiptsRecordEffects /\ EffectsHaveReceipts /\ OncePerLifetime)'
      BY <1>1 DEF Start, Begin, Goto, store, ReceiptsRecordEffects,
        EffectsHaveReceipts, OncePerLifetime
    <2> QED BY <2>1, <2>2, <2>3, <2>4, <2>5, <2>6, <2>7
  <1>2. ASSUME NEW c \in Calls, Look(c) PROVE Inv'
    <2>1. TypeOK' /\ Counted'
      BY <1>2 DEF Look, Live, Refused, Replayable, Replay, SendCommit, Goto,
        TypeOK, Counted, Open, Working, Ended, Ids, Id, Receipts, Effects, Quiet,
        store, transaction
    <2>2. Quiet' /\ OneWriter' /\ Undisturbed'
      BY <1>2 DEF Look, Live, Refused, Replayable, Replay, SendCommit, Goto,
        TypeOK, Quiet, Open, Working, Ended, OneWriter, Undisturbed, Over, store,
        transaction
    <2>3. Inserted'
      BY <1>2 DEF Look, Live, Refused, Replayable, Replay, SendCommit, Goto,
        TypeOK, Quiet, Inserted, Id, Open, Working, store, transaction
    <2>4. Sent'
      <3>1. ASSUME NEW x \in Calls, x # c
            PROVE  UNCHANGED <<now, effects, draft[x], work[x], attempt[x], commit[x]>>
        BY <1>2, <3>1 DEF Look, Live, Refused, Replayable, Replay, SendCommit,
          Goto, TypeOK, store, transaction
      <3>2. commit'[c] = "sent" => Carries(c)'
        BY <1>2 DEF Look, Live, Refused, Replayable, Replay, SendCommit, Goto,
          Quiet, Carries, TypeOK, Open, transaction
      <3> QED BY <3>1, <3>2, CarriesStays DEF Sent
    <2>5. Looked' /\ NotInProgress'
      BY <1>2 DEF Look, Live, Refused, Replayable, Replay, SendCommit, Goto,
        TypeOK, Looked, Open, Working, Receipts, NotInProgress,
        ReceiptsRecordEffects, store, transaction
    <2>6. AnswersAreDurable'
      BY <1>2 DEF Look, Live, Refused, Replayable, Replay, SendCommit, Goto,
        TypeOK, AnswersAreDurable, ReceiptsRecordEffects, Promised, Committed,
        Open, Working, store, transaction
    <2>7. Promised'
      <3>1. ASSUME NEW x \in Calls, x # c, phase'[x] = "committing", commit'[x] # "lost"
            PROVE  (draft'[x] # {} /\ response'[x] = {Id(x)'}) \/ Committed(x)'
        BY <1>2, <3>1 DEF Look, Live, Refused, Replayable, Replay, SendCommit,
          Goto, Promised, Committed, Id, TypeOK, store, transaction
      <3>2. phase'[c] = "committing" => Committed(c)'
        <4> SUFFICES ASSUME phase'[c] = "committing" PROVE Committed(c)'
          OBVIOUS
        <4>1. PICK r \in Live : Replayable(c, r) /\ Replay(c, r)
          BY <1>2 DEF Look, Live, Refused, Replayable, Replay, SendCommit, Goto, TypeOK
        <4>2. PICK e \in effects : e.by = r.by /\ e.request = r.request
          BY <4>1 DEF Live, ReceiptsRecordEffects
        <4>3. response'[c] = {r.by}
          BY <4>1 DEF Replay, TypeOK
        <4> QED BY <1>2, <4>1, <4>2, <4>3 DEF Look, Replayable, Committed, store
      <3> QED BY <3>1, <3>2 DEF Promised
    <2>8. (ReceiptsRecordEffects /\ EffectsHaveReceipts /\ OncePerLifetime)'
      BY <1>2 DEF Look, Live, Refused, Replayable, Replay, SendCommit, Goto,
        store, ReceiptsRecordEffects, EffectsHaveReceipts, OncePerLifetime
    <2> QED BY <2>1, <2>2, <2>3, <2>4, <2>5, <2>6, <2>7, <2>8
  <1>3. ASSUME NEW c \in Calls, Insert(c) PROVE Inv'
    <2>1. TypeOK' /\ Counted'
      BY <1>3 DEF Insert, Unconflicted, Goto, TypeOK, Counted, Open, Working,
        Ended, Ids, Id, Receipts, Effects, Quiet, store, transaction
    <2>2. Quiet' /\ OneWriter'
      BY <1>3 DEF Insert, Unconflicted, Goto, TypeOK, Quiet, Open, Working, Ended,
        OneWriter, store, transaction
    <2>3. Undisturbed'
      <3>1. Over(now)
        <4> SUFFICES ASSUME NEW e \in effects, e.at + Ttl > now PROVE FALSE
          BY DEF Over, TypeOK, Effects
        <4>1. PICK r \in receipts : r.expires = e.at + Ttl
          BY DEF EffectsHaveReceipts
        <4>2. r.expires <= now
          BY <1>3, <4>1 DEF Insert, Unconflicted, Looked
        <4> QED BY <4>1, <4>2 DEF TypeOK, Effects
      <3> QED
        BY <1>3, <3>1 DEF Insert, Unconflicted, Undisturbed, Over, TypeOK, store
    <2>4. Sent'
      BY <1>3 DEF Insert, Unconflicted, Goto, TypeOK, Quiet, Sent, Carries, Over,
        Id, Open, Working, store, transaction
    <2>5. Inserted'
      <3>1. ASSUME NEW x \in Calls, x # c, phase'[x] = "inserted"
            PROVE  phase[x] = "inserted" /\ draft'[x] = draft[x] /\ Id(x)' = Id(x)
        BY <1>3, <3>1 DEF Insert, Goto, TypeOK, Id
      <3>2. draft'[c] = {[by |-> Id(c), request |-> RequestOf[c],
                          state |-> "in_progress", expires |-> now + Ttl]}
        BY <1>3 DEF Insert, TypeOK
      <3>3. now + Ttl \in 0..(now + Ttl) /\ now' = now /\ Id(c)' = Id(c)
        BY <1>3 DEF Insert, TypeOK, Id, store
      <3> QED BY <3>1, <3>2, <3>3 DEF Inserted
    <2>6. Looked' /\ NotInProgress'
      BY <1>3 DEF Insert, Unconflicted, Goto, TypeOK, Looked, Open, Working,
        Receipts, NotInProgress, ReceiptsRecordEffects, store, transaction
    <2>7. Promised' /\ AnswersAreDurable'
      BY <1>3 DEF Insert, Unconflicted, Goto, TypeOK, Quiet, Promised, Committed,
        Id, Open, Working, AnswersAreDurable, ReceiptsRecordEffects, store,
        transaction
    <2>8. (ReceiptsRecordEffects /\ EffectsHaveReceipts /\ OncePerLifetime)'
      BY <1>3 DEF Insert, Unconflicted, Goto, store, ReceiptsRecordEffects,
        EffectsHaveReceipts, OncePerLifetime
    <2> QED BY <2>1, <2>2, <2>3, <2>4, <2>5, <2>6, <2>7, <2>8
  <1>4. ASSUME NEW c \in Calls, Perform(c) PROVE Inv'
    <2>1. Counted'
      BY <1>4 DEF Perform, Result, Completed, SendCommit, Goto, TypeOK, Counted,
        Quiet, Open, Working, Ended, store, transaction
    <2>2. TypeOK'
      <3>1. Id(c) \in Ids /\ Result(c) \in Effects
        BY <1>4 DEF Perform, Result, Counted, TypeOK, Id, Ids, Effects
      <3>2. Completed(c) \subseteq Receipts
        BY <1>4, <3>1, CompletedDraft DEF Perform, TypeOK, Receipts
      <3> QED BY <1>4, <3>1, <3>2 DEF Perform, SendCommit, Goto, Working, Ended,
        Open, TypeOK, store
    <2>3. Quiet' /\ OneWriter' /\ Undisturbed'
      BY <1>4 DEF Perform, Result, Completed, SendCommit, Goto, TypeOK, Quiet,
        Open, Working, Ended, OneWriter, Undisturbed, Over, store, transaction
    <2>4. Inserted'
      BY <1>4 DEF Perform, Result, Completed, SendCommit, Goto, TypeOK, Quiet,
        Inserted, Id, Open, Working, store, transaction
    <2>5. Sent'
      <3>1. ASSUME NEW x \in Calls, x # c
            PROVE  UNCHANGED <<now, effects, draft[x], work[x], attempt[x], commit[x]>>
        BY <1>4, <3>1 DEF Perform, Result, Completed, SendCommit, Goto, TypeOK,
          store, transaction
      <3>2. Carries(c)'
        <4>1. draft[c] # {} /\ Completed(c) = {[by |-> Id(c), request |-> RequestOf[c],
                             state |-> "completed", expires |-> now + Ttl]}
          BY <1>4, CompletedDraft DEF Perform
        <4>2. Over(now) /\ now \in 0..now
          BY <1>4, <4>1 DEF Undisturbed, TypeOK
        <4>3. work'[c] = {[by |-> Id(c), request |-> RequestOf[c], at |-> now]}
          BY <1>4 DEF Perform, Result, Completed, SendCommit, Goto, TypeOK
        <4>4. draft'[c] = {[by |-> Id(c), request |-> RequestOf[c],
                            state |-> "completed", expires |-> now + Ttl]}
          BY <1>4, <4>1 DEF Perform, TypeOK
        <4> QED BY <1>4, <4>2, <4>3, <4>4 DEF Perform, store, Carries, Over, Id
      <3> QED BY <3>1, <3>2, CarriesStays DEF Sent
    <2>6. Looked' /\ NotInProgress'
      BY <1>4 DEF Perform, Result, Completed, SendCommit, Goto, TypeOK, Looked,
        Open, Working, Receipts, NotInProgress, ReceiptsRecordEffects, store,
        transaction
    <2>7. AnswersAreDurable'
      BY <1>4 DEF Perform, Result, Completed, SendCommit, Goto, TypeOK,
        AnswersAreDurable, ReceiptsRecordEffects, Promised, Committed, Open,
        Working, store, transaction
    <2>8. Promised'
      <3>1. ASSUME NEW x \in Calls, x # c, phase'[x] = "committing", commit'[x] # "lost"
            PROVE  (draft'[x] # {} /\ response'[x] = {Id(x)'}) \/ Committed(x)'
        BY <1>4, <3>1 DEF Perform, Result, Completed, SendCommit, Goto,
          Promised, Committed, Id, TypeOK, store, transaction
      <3>2. draft'[c] # {} /\ response'[c] = {Id(c)'}
        <4>1. Completed(c) # {}
          BY <1>4, CompletedDraft DEF Perform
        <4> QED BY <1>4, <4>1 DEF Perform, SendCommit, Goto, Id, TypeOK
      <3> QED BY <3>1, <3>2 DEF Promised
    <2>9. (ReceiptsRecordEffects /\ EffectsHaveReceipts /\ OncePerLifetime)'
      BY <1>4 DEF Perform, Result, Completed, SendCommit, Goto, store,
        ReceiptsRecordEffects, EffectsHaveReceipts, OncePerLifetime
    <2> QED BY <2>1, <2>2, <2>3, <2>4, <2>5, <2>6, <2>7, <2>8, <2>9
  <1>5. ASSUME NEW c \in Calls, Confirm(c) PROVE Inv'
    <2>1. TypeOK' /\ Counted'
      BY <1>5 DEF Confirm, Goto, TypeOK, Counted, Open, Working, Ended, Ids, Id,
        Receipts, Effects, Quiet, store, transaction
    <2>2. Quiet' /\ OneWriter' /\ Undisturbed'
      BY <1>5 DEF Confirm, Goto, TypeOK, Quiet, Open, Working, Ended, OneWriter,
        Undisturbed, Over, store, transaction
    <2>3. Sent' /\ Inserted'
      BY <1>5 DEF Confirm, Goto, TypeOK, Quiet, Sent, Carries, Over, Id, Open,
        Working, Inserted, store, transaction
    <2>4. Looked' /\ NotInProgress'
      BY <1>5 DEF Confirm, Goto, TypeOK, Looked, Open, Working, Receipts,
        NotInProgress, ReceiptsRecordEffects, store, transaction
    <2>5. Promised'
      BY <1>5 DEF Confirm, Goto, TypeOK, Quiet, Promised, Committed, Id, Open,
        Working, store, transaction
    <2>6. AnswersAreDurable'
      <3>1. Committed(c)
        BY <1>5 DEF Confirm, Promised, Quiet, Open
      <3> QED BY <1>5, <3>1 DEF Confirm, Goto, AnswersAreDurable, Committed, TypeOK, store
    <2>7. (ReceiptsRecordEffects /\ EffectsHaveReceipts /\ OncePerLifetime)'
      BY <1>5 DEF Confirm, Goto, store, ReceiptsRecordEffects,
        EffectsHaveReceipts, OncePerLifetime
    <2> QED BY <2>1, <2>2, <2>3, <2>4, <2>5, <2>6, <2>7
  <1>6. ASSUME NEW c \in Calls, CommitUnknown(c) PROVE Inv'
    <2>1. TypeOK' /\ Counted'
      BY <1>6 DEF CommitUnknown, Goto, TypeOK, Counted, Open, Working, Ended, Ids,
        Id, Receipts, Effects, Quiet, store, transaction
    <2>2. Quiet' /\ OneWriter' /\ Undisturbed'
      BY <1>6 DEF CommitUnknown, Goto, TypeOK, Quiet, Open, Working, Ended,
        OneWriter, Undisturbed, Over, store, transaction
    <2>3. Sent' /\ Inserted'
      BY <1>6 DEF CommitUnknown, Goto, TypeOK, Quiet, Sent, Carries, Over, Id,
        Open, Working, Inserted, store, transaction
    <2>4. Looked' /\ NotInProgress'
      BY <1>6 DEF CommitUnknown, Goto, TypeOK, Looked, Open, Working, Receipts,
        NotInProgress, ReceiptsRecordEffects, store, transaction
    <2>5. Promised' /\ AnswersAreDurable'
      BY <1>6 DEF CommitUnknown, Goto, TypeOK, Quiet, Promised, Committed, Id,
        Open, Working, AnswersAreDurable, ReceiptsRecordEffects, store,
        transaction
    <2>6. (ReceiptsRecordEffects /\ EffectsHaveReceipts /\ OncePerLifetime)'
      BY <1>6 DEF CommitUnknown, Goto, store, ReceiptsRecordEffects,
        EffectsHaveReceipts, OncePerLifetime
    <2> QED BY <2>1, <2>2, <2>3, <2>4, <2>5, <2>6
  <1>7. ASSUME NEW c \in Calls, Retry(c) PROVE Inv'
    <2>1. Counted'
      BY <1>7 DEF Retry, MayFail, Discard, Begin, Goto, TypeOK, Counted, Quiet,
        Open, Working, Ended, store, transaction
    <2>2. TypeOK'
      <3>1. CASE attempt[c] < MaxAttempts /\ Begin(c)
        <4>1. attempt[c] + 1 \in 0..MaxAttempts
          BY <3>1 DEF TypeOK
        <4> QED BY <1>7, <3>1, <4>1 DEF Retry, Discard, Begin, Goto, TypeOK,
          Working, Open, store
      <3>2. CASE attempt[c] = MaxAttempts /\ Goto(c, "exhausted")
        BY <1>7, <3>2 DEF Retry, Discard, Begin, Goto, TypeOK, Ended, store
      <3> QED BY <1>7, <3>1, <3>2 DEF Retry
    <2>3. Quiet' /\ OneWriter' /\ Undisturbed'
      BY <1>7 DEF Retry, MayFail, Discard, Begin, Goto, TypeOK, Quiet, Open,
        Working, Ended, OneWriter, Undisturbed, Over, store, transaction
    <2>4. Inserted'
      BY <1>7 DEF Retry, MayFail, Discard, Begin, Goto, TypeOK, Quiet, Inserted,
        Id, Open, Working, store, transaction
    <2>5. Sent'
      <3>1. ASSUME NEW x \in Calls, x # c
            PROVE  UNCHANGED <<now, effects, draft[x], work[x], attempt[x], commit[x]>>
        BY <1>7, <3>1 DEF Retry, MayFail, Discard, Begin, Goto, TypeOK, store, transaction
      <3>2. commit'[c] # "sent"
        BY <1>7 DEF Retry, MayFail, Discard, Begin, Goto, Quiet, TypeOK, Open
      <3> QED BY <3>1, <3>2, CarriesStays DEF Sent
    <2>6. Looked' /\ NotInProgress'
      BY <1>7 DEF Retry, MayFail, Discard, Begin, Goto, TypeOK, Looked, Open,
        Working, Receipts, NotInProgress, ReceiptsRecordEffects, store,
        transaction
    <2>7. AnswersAreDurable'
      BY <1>7 DEF Retry, MayFail, Discard, Begin, Goto, TypeOK, AnswersAreDurable,
        ReceiptsRecordEffects, Promised, Committed, Open, Working, store,
        transaction
    <2>8. Promised'
      <3>1. ASSUME NEW x \in Calls, x # c, phase'[x] = "committing", commit'[x] # "lost"
            PROVE  (draft'[x] # {} /\ response'[x] = {Id(x)'}) \/ Committed(x)'
        BY <1>7, <3>1 DEF Retry, MayFail, Discard, Begin, Goto, Promised,
          Committed, Id, TypeOK, store, transaction
      <3>2. phase'[c] # "committing"
        BY <1>7 DEF Retry, MayFail, Discard, Begin, Goto, TypeOK
      <3> QED BY <3>1, <3>2 DEF Promised
    <2>9. (ReceiptsRecordEffects /\ EffectsHaveReceipts /\ OncePerLifetime)'
      BY <1>7 DEF Retry, MayFail, Discard, Begin, Goto, store,
        ReceiptsRecordEffects, EffectsHaveReceipts, OncePerLifetime
    <2> QED BY <2>1, <2>2, <2>3, <2>4, <2>5, <2>6, <2>7, <2>8, <2>9
  <1>8. ASSUME NEW c \in Calls, Fail(c) PROVE Inv'
    <2>1. TypeOK' /\ Counted'
      BY <1>8 DEF Fail, MayFail, Discard, Goto, TypeOK, Counted, Open, Working,
        Ended, Ids, Id, Receipts, Effects, Quiet, store, transaction
    <2>2. Quiet' /\ OneWriter' /\ Undisturbed'
      BY <1>8 DEF Fail, MayFail, Discard, Goto, TypeOK, Quiet, Open, Working,
        Ended, OneWriter, Undisturbed, Over, store, transaction
    <2>3. Inserted'
      BY <1>8 DEF Fail, MayFail, Discard, Goto, TypeOK, Quiet, Inserted, Id, Open,
        Working, store, transaction
    <2>4. Sent'
      <3>1. ASSUME NEW x \in Calls, x # c
            PROVE  UNCHANGED <<now, effects, draft[x], work[x], attempt[x], commit[x]>>
        BY <1>8, <3>1 DEF Fail, MayFail, Discard, Goto, TypeOK, store, transaction
      <3>2. commit'[c] # "sent"
        BY <1>8 DEF Fail, MayFail, Discard, Goto, Quiet, TypeOK, Open
      <3> QED BY <3>1, <3>2, CarriesStays DEF Sent
    <2>5. Looked' /\ NotInProgress'
      BY <1>8 DEF Fail, MayFail, Discard, Goto, TypeOK, Looked, Open, Working,
        Receipts, NotInProgress, ReceiptsRecordEffects, store, transaction
    <2>6. Promised' /\ AnswersAreDurable'
      BY <1>8 DEF Fail, MayFail, Discard, Goto, TypeOK, Quiet, Promised,
        Committed, Id, Open, Working, AnswersAreDurable, ReceiptsRecordEffects,
        store, transaction
    <2>7. (ReceiptsRecordEffects /\ EffectsHaveReceipts /\ OncePerLifetime)'
      BY <1>8 DEF Fail, MayFail, Discard, Goto, store, ReceiptsRecordEffects,
        EffectsHaveReceipts, OncePerLifetime
    <2> QED BY <2>1, <2>2, <2>3, <2>4, <2>5, <2>6, <2>7
  <1>9. ASSUME NEW c \in Calls, DuplicateKey(c) PROVE Inv'
    <2>1. TypeOK' /\ Counted'
      BY <1>9 DEF DuplicateKey, Discard, Goto, TypeOK, Counted, Open, Working,
        Ended, Ids, Id, Receipts, Effects, Quiet, store, transaction
    <2>2. Quiet' /\ OneWriter' /\ Undisturbed'
      BY <1>9 DEF DuplicateKey, Discard, Goto, TypeOK, Quiet, Open, Working,
        Ended, OneWriter, Undisturbed, Over, store, transaction
    <2>3. Inserted'
      BY <1>9 DEF DuplicateKey, Discard, Goto, TypeOK, Quiet, Inserted, Id, Open,
        Working, store, transaction
    <2>4. Sent'
      <3>1. ASSUME NEW x \in Calls, x # c
            PROVE  UNCHANGED <<now, effects, draft[x], work[x], attempt[x], commit[x]>>
        BY <1>9, <3>1 DEF DuplicateKey, Discard, Goto, TypeOK, store, transaction
      <3>2. commit'[c] # "sent"
        BY <1>9 DEF DuplicateKey, Discard, Goto, Quiet, TypeOK, Open
      <3> QED BY <3>1, <3>2, CarriesStays DEF Sent
    <2>5. Looked' /\ NotInProgress'
      BY <1>9 DEF DuplicateKey, Discard, Goto, TypeOK, Looked, Open, Working,
        Receipts, NotInProgress, ReceiptsRecordEffects, store, transaction
    <2>6. Promised' /\ AnswersAreDurable'
      BY <1>9 DEF DuplicateKey, Discard, Goto, TypeOK, Quiet, Promised, Committed,
        Id, Open, Working, AnswersAreDurable, ReceiptsRecordEffects, store,
        transaction
    <2>7. (ReceiptsRecordEffects /\ EffectsHaveReceipts /\ OncePerLifetime)'
      BY <1>9 DEF DuplicateKey, Discard, Goto, store, ReceiptsRecordEffects,
        EffectsHaveReceipts, OncePerLifetime
    <2> QED BY <2>1, <2>2, <2>3, <2>4, <2>5, <2>6, <2>7
  <1>10. ASSUME NEW c \in Calls, Reconcile(c) PROVE Inv'
    <2>1. TypeOK' /\ Counted'
      BY <1>10 DEF Reconcile, Live, Refused, Replayable, Replay, Goto, TypeOK,
        Counted, Open, Working, Ended, Ids, Id, Receipts, Effects, Quiet, store,
        transaction
    <2>2. Quiet' /\ OneWriter' /\ Undisturbed'
      BY <1>10 DEF Reconcile, Live, Refused, Replayable, Replay, Goto, TypeOK,
        Quiet, Open, Working, Ended, OneWriter, Undisturbed, Over, store,
        transaction
    <2>3. Sent' /\ Inserted'
      BY <1>10 DEF Reconcile, Live, Refused, Replayable, Replay, Goto, TypeOK,
        Quiet, Sent, Carries, Over, Id, Open, Working, Inserted, store,
        transaction
    <2>4. Looked' /\ NotInProgress'
      BY <1>10 DEF Reconcile, Live, Refused, Replayable, Replay, Goto, TypeOK,
        Looked, Open, Working, Receipts, NotInProgress, ReceiptsRecordEffects,
        store, transaction
    <2>5. Promised' /\ AnswersAreDurable'
      BY <1>10 DEF Reconcile, Live, Refused, Replayable, Replay, Goto, TypeOK,
        Quiet, Promised, Committed, Id, Open, Working, AnswersAreDurable,
        ReceiptsRecordEffects, store, transaction
    <2>6. (ReceiptsRecordEffects /\ EffectsHaveReceipts /\ OncePerLifetime)'
      BY <1>10 DEF Reconcile, Live, Refused, Replayable, Replay, Goto, store,
        ReceiptsRecordEffects, EffectsHaveReceipts, OncePerLifetime
    <2> QED BY <2>1, <2>2, <2>3, <2>4, <2>5, <2>6
  <1>11. ASSUME NEW c \in Calls, Crash(c) PROVE Inv'
    <2>1. TypeOK' /\ Counted'
      BY <1>11 DEF Crash, Discard, Goto, TypeOK, Counted, Open, Working, Ended,
        Ids, Id, Receipts, Effects, Quiet, store, transaction
    <2>2. Quiet' /\ OneWriter' /\ Undisturbed'
      BY <1>11 DEF Crash, Discard, Goto, TypeOK, Quiet, Open, Working, Ended,
        OneWriter, Undisturbed, Over, store, transaction
    <2>3. Inserted'
      BY <1>11 DEF Crash, Discard, Goto, TypeOK, Quiet, Inserted, Id, Open,
        Working, store, transaction
    <2>4. Sent'
      <3>1. ASSUME NEW x \in Calls, x # c
            PROVE  UNCHANGED <<now, effects, draft[x], work[x], attempt[x], commit[x]>>
        BY <1>11, <3>1 DEF Crash, Discard, Goto, TypeOK, store, transaction
      <3>2. commit'[c] = "sent" => UNCHANGED <<now, effects, draft[c], work[c], attempt[c], commit[c]>>
        BY <1>11 DEF Crash, Discard, Goto, store
      <3> QED BY <3>1, <3>2, CarriesStays DEF Sent
    <2>5. Looked' /\ NotInProgress'
      BY <1>11 DEF Crash, Discard, Goto, TypeOK, Looked, Open, Working, Receipts,
        NotInProgress, ReceiptsRecordEffects, store, transaction
    <2>6. Promised' /\ AnswersAreDurable'
      BY <1>11 DEF Crash, Discard, Goto, TypeOK, Quiet, Promised, Committed, Id,
        Open, Working, AnswersAreDurable, ReceiptsRecordEffects, store,
        transaction
    <2>7. (ReceiptsRecordEffects /\ EffectsHaveReceipts /\ OncePerLifetime)'
      BY <1>11 DEF Crash, Discard, Goto, store, ReceiptsRecordEffects,
        EffectsHaveReceipts, OncePerLifetime
    <2> QED BY <2>1, <2>2, <2>3, <2>4, <2>5, <2>6, <2>7
  <1>12. ASSUME NEW c \in Calls, Apply(c) PROVE Inv'
    <2> USE <1>12 DEF Apply
    <2>1. TypeOK
      OBVIOUS
    <2>2. CASE draft[c] = {} /\ work[c] = {}
      <3>1. UNCHANGED <<now, receipts, effects, phase, attempt, commits, transaction, response>>
        <4>1. draft' = draft /\ work' = work
          BY <2>2 DEF Discard, TypeOK
        <4> QED BY <2>2, <4>1 DEF transaction
      <3>2. commit' = [commit EXCEPT ![c] = "applied"]
        OBVIOUS
      <3>3. TypeOK' /\ Counted' /\ Inserted' /\ OneWriter' /\ Undisturbed' /\ Looked'
        BY <3>1, <3>2 DEF TypeOK, Counted, Inserted, OneWriter, Undisturbed,
          Looked, Over, Id,
           transaction
      <3>4. Quiet' /\ Promised'
        BY <2>2, <3>1, <3>2 DEF TypeOK, Quiet, Id, Promised, Committed, Open, transaction
      <3>5. Sent'
        <4>1. \A x \in Calls : commit'[x] = "sent" => commit[x] = "sent"
          BY <3>2 DEF TypeOK
        <4> QED BY <3>1, <4>1, CarriesStays DEF Sent, transaction
      <3>6. /\ ReceiptsRecordEffects' /\ EffectsHaveReceipts' /\ OncePerLifetime'
            /\ AnswersAreDurable' /\ NotInProgress'
        BY <3>1 DEF ReceiptsRecordEffects, EffectsHaveReceipts, OncePerLifetime,
           AnswersAreDurable, NotInProgress
      <3> QED BY <3>3, <3>4, <3>5, <3>6
    <2>3. CASE draft[c] # {}
      <3>1. PICK t \in 0..now :
              /\ Over(t)
              /\ work[c] = {[by |-> Id(c), request |-> RequestOf[c], at |-> t]}
              /\ draft[c] = {[by |-> Id(c), request |-> RequestOf[c],
                              state |-> "completed", expires |-> t + Ttl]}
        BY <2>3 DEF Sent, Carries
      <3> DEFINE e == [by |-> Id(c), request |-> RequestOf[c], at |-> t]
                 r == [by |-> Id(c), request |-> RequestOf[c],
                       state |-> "completed", expires |-> t + Ttl]
      <3>2. receipts' = {r} /\ effects' = effects \cup {e}
        BY <2>3, <3>1 DEF Undisturbed
      <3>3. /\ e \in Effects /\ r \in Receipts
            /\ e.by = Id(c) /\ e.request = RequestOf[c] /\ e.at = t
            /\ r.by = Id(c) /\ r.request = RequestOf[c]
            /\ r.state = "completed" /\ r.expires = t + Ttl
        <4>1. t \in Nat /\ t + Ttl \in Nat /\ t <= now
          BY <2>1, <3>1 DEF TypeOK
        <4>2. draft[c] \in SUBSET Receipts /\ work[c] \in SUBSET Effects
          BY <2>1 DEF TypeOK
        <4> QED BY <3>1, <4>1, <4>2
      <3> HIDE DEF e, r
      <3>4. \A d \in Calls : draft'[d] = {}
        BY <2>1, <2>3 DEF Discard, OneWriter, TypeOK
      <3>5. \A d \in Calls : d # c => work'[d] = work[d] /\ commit'[d] = commit[d]
        BY <2>1 DEF Discard, TypeOK
      <3>6. work'[c] = {} /\ commit'[c] = "applied"
        BY <2>1 DEF Discard, TypeOK
      <3>7. \A d \in Calls : d # c /\ commit[d] = "sent" => work[d] = {}
        <4> SUFFICES ASSUME NEW d \in Calls, d # c, commit[d] = "sent", draft[d] = {}
                     PROVE  work[d] = {}
          BY <2>3 DEF OneWriter
        <4> QED BY DEF Sent, Carries
      <3>8. \A x \in effects : x \in Effects /\ x.at + Ttl <= t
        BY <2>1, <3>1 DEF Over, TypeOK
      <3>9. TypeOK'
        BY <2>1, <3>2, <3>3 DEF TypeOK, Discard
      <3>10. Counted' /\ Looked' /\ NotInProgress'
        BY DEF Counted, Looked, NotInProgress
      <3>11. Quiet'
        BY <3>4, <3>5, <3>6 DEF Quiet, Open
      <3>12. Sent'
        BY <3>4, <3>5, <3>6, <3>7 DEF Sent, Carries
      <3>13. Inserted' /\ OneWriter' /\ Undisturbed'
        <4>1. \A d \in Calls : phase[d] # "inserted"
          BY <2>3 DEF Inserted, OneWriter, Quiet, Open
        <4> QED BY <3>4, <4>1 DEF Inserted, OneWriter, Undisturbed
      <3>14. ReceiptsRecordEffects'
        BY <3>2, <3>3 DEF ReceiptsRecordEffects
      <3>15. EffectsHaveReceipts'
        BY <2>1, <3>1, <3>2, <3>3, <3>8 DEF EffectsHaveReceipts, Effects, TypeOK
      <3>16. OncePerLifetime'
        BY <3>2, <3>3, <3>8 DEF OncePerLifetime
      <3>17. Promised'
        <4>1. \A d \in Calls : Committed(d) => Committed(d)'
          BY <3>2 DEF Committed
        <4>2. phase[c] = "committing" => Committed(c)'
          <5>1. phase[c] = "committing" /\ response[c] = {Id(c)} => Committed(c)'
            BY <3>2, <3>3 DEF Committed
          <5> QED BY <4>1, <5>1 DEF Promised
        <4>3. ASSUME NEW d \in Calls, d # c, phase[d] = "committing", commit[d] # "lost"
              PROVE  Committed(d)'
          BY <2>3, <4>1, <4>3 DEF Promised, OneWriter
        <4> QED BY <3>5, <4>2, <4>3 DEF Promised
      <3>18. AnswersAreDurable'
        BY <3>2 DEF AnswersAreDurable
      <3> QED BY <3>9, <3>10, <3>11, <3>12, <3>13, <3>14, <3>15, <3>16, <3>17, <3>18
    <2> QED
      BY <2>2, <2>3 DEF Sent, Carries
  <1>13. ASSUME NEW c \in Calls, Lose(c) PROVE Inv'
    <2>1. TypeOK' /\ Counted'
      BY <1>13 DEF Lose, Discard, TypeOK, Counted, Open, Working, Ended, Ids, Id,
        Receipts, Effects, Quiet, store, transaction
    <2>2. Quiet' /\ OneWriter' /\ Undisturbed'
      BY <1>13 DEF Lose, Discard, TypeOK, Quiet, Open, Working, Ended, OneWriter,
        Undisturbed, Over, store, transaction
    <2>3. Inserted'
      BY <1>13 DEF Lose, Discard, TypeOK, Quiet, Inserted, Id, Open, Working,
        store, transaction
    <2>4. Sent'
      <3>1. ASSUME NEW x \in Calls, x # c
            PROVE  UNCHANGED <<now, effects, draft[x], work[x], attempt[x], commit[x]>>
        BY <1>13, <3>1 DEF Lose, Discard, TypeOK, store, transaction
      <3>2. commit'[c] # "sent"
        BY <1>13 DEF Lose, Discard, TypeOK
      <3> QED BY <3>1, <3>2, CarriesStays DEF Sent
    <2>5. Looked' /\ NotInProgress'
      BY <1>13 DEF Lose, Discard, TypeOK, Looked, Open, Working, Receipts,
        NotInProgress, ReceiptsRecordEffects, store, transaction
    <2>6. Promised' /\ AnswersAreDurable'
      BY <1>13 DEF Lose, Discard, TypeOK, Quiet, Promised, Committed, Id, Open,
        Working, AnswersAreDurable, ReceiptsRecordEffects, store, transaction
    <2>7. (ReceiptsRecordEffects /\ EffectsHaveReceipts /\ OncePerLifetime)'
      BY <1>13 DEF Lose, Discard, store, ReceiptsRecordEffects,
        EffectsHaveReceipts, OncePerLifetime
    <2> QED BY <2>1, <2>2, <2>3, <2>4, <2>5, <2>6, <2>7
  <1>14. CASE Expire
    <2>1. TypeOK' /\ Counted' /\ Quiet' /\ Inserted' /\ OneWriter' /\ Looked'
      BY <1>14 DEF Expire, TypeOK, Counted, Quiet, Inserted, OneWriter, Looked,
        Id, transaction
    <2>2. Sent' /\ Undisturbed' /\ Promised' /\ AnswersAreDurable' /\ NotInProgress'
      BY <1>14 DEF Expire, Sent, Carries, Over, Undisturbed, Promised, Committed, Id,
         AnswersAreDurable, NotInProgress, transaction
    <2>3. EffectsHaveReceipts'
      BY <1>14 DEF Expire, Live, EffectsHaveReceipts, TypeOK, Receipts, Effects
    <2>4. ReceiptsRecordEffects' /\ OncePerLifetime'
      BY <1>14 DEF Expire, ReceiptsRecordEffects, OncePerLifetime
    <2> QED BY <2>1, <2>2, <2>3, <2>4
  <1>15. CASE Tick
    <2>1. TypeOK' /\ Counted' /\ Quiet' /\ OneWriter'
      BY <1>15 DEF Tick, TypeOK, Counted, Quiet, OneWriter, transaction
    <2>2. Inserted' /\ Looked'
      BY <1>15 DEF Tick, Inserted, Looked, Id, TypeOK, Receipts, transaction
    <2>3. Sent'
      <3>1. \A t \in 0..now : t \in 0..now'
        BY <1>15 DEF Tick, TypeOK
      <3>2. \A x \in Calls : Carries(x) => Carries(x)'
        BY <1>15, <3>1 DEF Tick, Carries, Over, Id, transaction
      <3> QED BY <1>15, <3>2 DEF Tick, Sent
    <2>4. Undisturbed'
      BY <1>15 DEF Tick, Undisturbed, Over, TypeOK, Effects, transaction
    <2>5. ReceiptsRecordEffects' /\ EffectsHaveReceipts' /\ OncePerLifetime'
      BY <1>15 DEF Tick, ReceiptsRecordEffects, EffectsHaveReceipts, OncePerLifetime,
         TypeOK, Effects
    <2>6. Promised' /\ AnswersAreDurable' /\ NotInProgress'
      BY <1>15 DEF Tick, Promised, Committed, Id, AnswersAreDurable,
        NotInProgress, transaction
    <2> QED BY <2>1, <2>2, <2>3, <2>4, <2>5, <2>6
  <1>16. CASE UNCHANGED vars
    <2> USE <1>16 DEF vars, store, transaction
    <2>1. TypeOK' /\ Counted' /\ Quiet' /\ OneWriter' /\ Looked' /\ NotInProgress'
      BY DEF TypeOK, Counted, Quiet, OneWriter, Looked, NotInProgress
    <2>2. Sent'
      BY CarriesStays DEF Sent
    <2>3. Inserted' /\ Undisturbed' /\ Promised' /\ AnswersAreDurable'
      BY DEF Inserted, Id, Undisturbed, Over, Promised, Committed, AnswersAreDurable
    <2>4. (ReceiptsRecordEffects /\ EffectsHaveReceipts /\ OncePerLifetime)'
      BY DEF ReceiptsRecordEffects, EffectsHaveReceipts, OncePerLifetime
    <2> QED BY <2>1, <2>2, <2>3, <2>4
  <1> QED
    BY <1>1, <1>2, <1>3, <1>4, <1>5, <1>6, <1>7, <1>8, <1>9, <1>10, <1>11, <1>12,
      <1>13, <1>14, <1>15, <1>16 DEF Next, Proceed

(* The initial state satisfies it.                                         *)
LEMMA InitEstablishes == Init => Inv
  BY ConstantsAssumption
  DEF Init, Inv, TypeOK, Counted, Quiet, Sent, Inserted, OneWriter, Undisturbed, Looked,
      ReceiptsRecordEffects, EffectsHaveReceipts, OncePerLifetime, Promised,
      AnswersAreDurable, NotInProgress, Open, Working, Ended

-----------------------------------------------------------------------------
(* The theorems.                                                           *)

(* The inductive invariant holds in every reachable state.                 *)
THEOREM Invariance == Spec => []Inv
  <1> QED BY InitEstablishes, StepPreserves, PTL DEF Spec

(* Every variable keeps its type, and the identity has at most one receipt.*)
THEOREM TypeCorrect == Spec => []TypeOK
  <1>1. Inv => TypeOK
    BY DEF Inv
  <1> QED BY Invariance, <1>1, PTL

(* A command takes effect at most once in the lifetime of its receipt.     *)
THEOREM AtMostOnce == Spec => []OncePerLifetime
  <1>1. Inv => OncePerLifetime
    BY DEF Inv
  <1> QED BY Invariance, <1>1, PTL

(* Answers are those of committed effects of the same request, and refusals*)
(* are due to a committed effect of another.                               *)
THEOREM DurableAnswers == Spec => []AnswersAreDurable
  <1>1. Inv => AnswersAreDurable
    BY DEF Inv
  <1> QED BY Invariance, <1>1, PTL

(* An effect can be found by its receipt for the whole lifetime.           *)
THEOREM Reconcilable == Spec => []EffectsHaveReceipts
  <1>1. Inv => EffectsHaveReceipts
    BY DEF Inv
  <1> QED BY Invariance, <1>1, PTL

(* No receipt without an effect, and nobody finds one in progress.         *)
THEOREM KeysAreNeverBlocked == Spec => []NeverBlocked
  <1>1. Inv => NeverBlocked
    BY DEF Inv, NeverBlocked, ReceiptsRecordEffects, NotInProgress
  <1> QED BY Invariance, <1>1, PTL
=============================================================================
