----------------------------- MODULE SkillBank -----------------------------
(***************************************************************************)
(* SkillBank (packages/skills/src/bank.ts), for one name: a registration   *)
(* replaces the record when its tests have passed, approve() and           *)
(* setSignature() replace it by an amended copy, and use() runs the record *)
(* it read before it awaited the verification of the signature.            *)
(***************************************************************************)
EXTENDS Integers

CONSTANTS
  Callers,       \* calls of register() or use() that overlap
  RequireSigned, \* the option of the bank
  MaxVersions    \* bound on registrations

VARIABLES
  record,    \* what the bank holds under the name
  version,   \* the counter of the name
  doing,     \* what each caller awaits
  inHand,    \* the lock an external signer has signed
  approved,  \* versions that were approved
  signed,    \* locks that were signed
  ran        \* records that were invoked

kvars == <<record, version, doing, inHand, approved, signed, ran>>

Authors == {"human", "agent"}
Kinds == {"run", "code"}

NoLock == [version |-> 0, author |-> "human", quarantined |-> FALSE]
None == [lock |-> NoLock, kind |-> "run", signature |-> NoLock]
Idle == [at |-> "idle", author |-> "human", kind |-> "run", record |-> None]

Init ==
  /\ record = None /\ version = 0
  /\ doing = [c \in Callers |-> Idle]
  /\ inHand = NoLock
  /\ approved = {} /\ signed = {} /\ ran = {}

-----------------------------------------------------------------------------
\* What an agent writes is run in the sandbox only, and what runs in the
\* process cannot be signed.
Admissible(author, kind) ==
  kind = "run" => author = "human" /\ ~ RequireSigned

\* The faulty variant keeps the state that the name had before.
KeptQuarantine(author) ==
  IF version = 0 THEN author = "agent" ELSE record.lock.quarantined

Quarantine(author) == author = "agent"

\* register() takes its snapshot and awaits the tests.
Register(c) ==
  /\ doing[c].at = "idle" /\ version < MaxVersions
  /\ \E author \in Authors, kind \in Kinds :
       /\ Admissible(author, kind)
       /\ doing' = [doing EXCEPT ![c] = [Idle EXCEPT !.at = "testing",
                                           !.author = author, !.kind = kind]]
  /\ UNCHANGED <<record, version, inHand, approved, signed, ran>>

\* Every test has passed, and the version is taken now.
Passed(c) ==
  /\ doing[c].at = "testing" /\ version < MaxVersions
  /\ version' = version + 1
  /\ record' = [lock |-> [version |-> version + 1, author |-> doing[c].author,
                          quarantined |-> Quarantine(doing[c].author)],
                kind |-> doing[c].kind, signature |-> NoLock]
  /\ doing' = [doing EXCEPT ![c] = Idle]
  /\ UNCHANGED <<inHand, approved, signed, ran>>

\* A test failed, and nothing is registered.
FailedTest(c) ==
  /\ doing[c].at = "testing"
  /\ doing' = [doing EXCEPT ![c] = Idle]
  /\ UNCHANGED <<record, version, inHand, approved, signed, ran>>

\* The signature is dropped: the lock is another one now.
Approve ==
  /\ record # None
  /\ record' = [record EXCEPT !.lock.quarantined = FALSE, !.signature = NoLock]
  /\ approved' = approved \cup {record.lock.version}
  /\ UNCHANGED <<version, doing, inHand, signed, ran>>

\* The signer reads the lock with get(), and comes back whenever it likes.
Sign ==
  /\ record # None
  /\ inHand' = record.lock
  /\ signed' = signed \cup {record.lock}
  /\ UNCHANGED <<record, version, doing, approved, ran>>

SetSignature ==
  /\ record # None /\ inHand # NoLock
  /\ record' = [record EXCEPT !.signature = inHand]
  /\ UNCHANGED <<version, doing, inHand, approved, signed, ran>>

\* use() reads the record and refuses one in quarantine.
Use(c) ==
  /\ doing[c].at = "idle"
  /\ record # None /\ ~ record.lock.quarantined
  /\ IF RequireSigned
     THEN /\ doing' = [doing EXCEPT ![c] = [Idle EXCEPT !.at = "verifying",
                                                        !.record = record]]
          /\ UNCHANGED ran
     ELSE /\ ran' = ran \cup {record}
          /\ UNCHANGED doing
  /\ UNCHANGED <<record, version, inHand, approved, signed>>

\* The faulty variant reads the bank again.
ReadAgain(c) == record

\* What is invoked is what was verified.
Invoked(c) == doing[c].record

\* The signature vouches for this very lock, or use() throws.
Verified(c) ==
  /\ doing[c].at = "verifying"
  /\ LET r == doing[c].record
     IN ran' = IF r.signature = r.lock THEN ran \cup {Invoked(c)} ELSE ran
  /\ doing' = [doing EXCEPT ![c] = Idle]
  /\ UNCHANGED <<record, version, inHand, approved, signed>>

Next ==
  \/ \E c \in Callers :
       Register(c) \/ Passed(c) \/ FailedTest(c) \/ Use(c) \/ Verified(c)
  \/ Approve \/ Sign \/ SetSignature

Spec == Init /\ [][Next]_kvars

-----------------------------------------------------------------------------
\* Every variable has its type.
TypeOK ==
  /\ version \in 0..MaxVersions
  /\ approved \subseteq 1..MaxVersions
  /\ \A c \in Callers : doing[c].at \in {"idle", "testing", "verifying"}

\* Whatever was invoked had its quarantine lifted, if an agent wrote it, by an
\* approval of that version and none before it; and where signatures are
\* required, someone signed exactly that version in that state.
RunsAreEarned ==
  \A r \in ran :
    /\ ~ r.lock.quarantined
    /\ r.lock.author = "agent" =>
         r.lock.version \in approved /\ r.kind = "code"
    /\ RequireSigned => r.lock \in signed /\ r.kind = "code"

\* The bank never goes back to an older version.
NewestStays == record.lock.version = version
=============================================================================
