----------------------------- MODULE Integrations -----------------------------
(***************************************************************************)
(* The integrations of a project: a security integration, with the secret  *)
(* that scanners present; an orchestration integration, with the token the *)
(* platform presents to the cluster; a Jenkins integration.  Each kind is  *)
(* a collection with its own routes, so a behaviour has one kind.          *)
(*                                                                         *)
(* A handler reads, checks and writes in steps that overlap with others.   *)
(* Mongoose writes the fields that were assigned and no others.  Secrets   *)
(* and tokens are numbers: each that is generated or given is a new one.   *)
(* Jobs of the orchestration worker read an integration, use its token and *)
(* note on it how that went.                                               *)
(***************************************************************************)
EXTENDS Naturals, FiniteSets

CONSTANTS
    Ids,            \* the integrations there may be
    Names,
    Callers,        \* requests that overlap
    Observers,      \* job slots of the orchestration worker
    MaxSecrets,     \* bound: how many credentials there ever are
    BadTokens       \* the tokens that the cluster does not accept

ASSUME IntegrationsAssumption ==
    /\ IsFiniteSet(Ids) /\ MaxSecrets \in Nat
    /\ BadTokens \subseteq 1..MaxSecrets

VARIABLES
    kind,           \* the collection
    integration,    \* the documents
    call,           \* the requests
    observer,       \* the jobs of the worker
    minted,         \* how many credentials there are
    known,          \* history: secrets a caller was told, or the process died with
    past            \* history: credentials that were replaced

integrationVars == <<kind, integration, call, observer, minted, known, past>>

Kinds   == {"security", "orchestration", "jenkins"}
Secrets == 0..MaxSecrets
Active  == {"on", "off"}
Unset   == "unset"

\* secret: 0 for the one it had at first, which was told then and is accepted.
\* error: the token that the last observation failed with, 0 for none.
Documents == [is : {"stored"}, name : Names, active : Active, secret : Secrets, error : Secrets]
Original == [is |-> "stored", name |-> CHOOSE n \in Names : TRUE, active |-> "on",
             secret |-> 0, error |-> 0]
Missing(is) == [is |-> is, name |-> Unset, active |-> "off", secret |-> 0, error |-> 0]

\* What a request assigns: Unset and 0 stand for what it leaves alone.
Assignments == [name : Names \cup {Unset}, active : Active \cup {Unset}, secret : Secrets]
Nothing == [name |-> Unset, active |-> Unset, secret |-> 0]

Calls  == [pc : {"idle", "insert", "save", "answer"}, id : Ids \cup {Unset}, set : Assignments]
NoCall == [pc |-> "idle", id |-> Unset, set |-> Nothing]
NoJob  == [id |-> Unset, token |-> 0]

IntegrationsTypeOK ==
    /\ kind \in Kinds
    /\ integration \in [Ids -> Documents \cup {Missing("unborn"), Missing("deleted")}]
    /\ call \in [Callers -> Calls]
    /\ observer \in [Observers -> [id : Ids \cup {Unset}, token : Secrets]]
    /\ minted \in Secrets
    /\ known \in SUBSET Secrets
    /\ past \in SUBSET Secrets

IntegrationsInit ==
    /\ kind \in Kinds
    /\ \E old \in {{}} \cup {{i} : i \in Ids} :
          integration = [i \in Ids |-> IF i \in old THEN Original ELSE Missing("unborn")]
    /\ call = [c \in Callers |-> NoCall]
    /\ observer = [o \in Observers |-> NoJob]
    /\ minted = 0
    /\ known = {0}
    /\ past = {}

-----------------------------------------------------------------------------
IsStored(i) == integration[i].is = "stored"
Taken(n, i) == \E j \in Ids \ {i} : IsStored(j) /\ integration[j].name = n

\* The id a new document gets is one that nobody had.
Fresh(i) == integration[i].is = "unborn" /\ \A c \in Callers : call[c].id # i

ModifiedAll(doc, set) ==
    [name   |-> IF set.name = Unset THEN doc.name ELSE set.name,
     active |-> IF set.active = Unset THEN doc.active ELSE set.active,
     secret |-> IF set.secret = 0 THEN doc.secret ELSE set.secret]

\* What save() will write of a document as it was read.
Modified(doc, set) == set

StartCall(c, pc, i, set) ==
    /\ call[c].pc = "idle"
    /\ call' = [call EXCEPT ![c] = [pc |-> pc, id |-> i, set |-> set]]
    /\ minted' = minted + (IF set.secret = 0 THEN 0 ELSE 1)
    /\ UNCHANGED <<kind, integration, observer, known, past>>

NewSecret == minted + 1
MayMint == minted < MaxSecrets

-----------------------------------------------------------------------------
(***************************************************************************)
(* Create.  The checks that fail answer at once and change nothing.        *)
(***************************************************************************)

CreateSecurityIntegration(c, i, n) ==
    /\ kind = "security" /\ MayMint /\ Fresh(i)
    /\ ~Taken(n, i)
    /\ StartCall(c, "insert", i, [name |-> n, active |-> "on", secret |-> NewSecret])

CreateOrchestrationIntegration(c, i, n) ==
    /\ kind = "orchestration" /\ MayMint /\ Fresh(i)
    /\ ~Taken(n, i)
    /\ StartCall(c, "insert", i, [name |-> n, active |-> "on", secret |-> NewSecret])

\* A job of Jenkins may have two integrations.
CreateJenkinsIntegration(c, i, n) ==
    /\ kind = "jenkins" /\ MayMint /\ Fresh(i)
    /\ StartCall(c, "insert", i, [name |-> n, active |-> "on", secret |-> NewSecret])

Fail(c) ==
    /\ call' = [call EXCEPT ![c] = NoCall]
    /\ UNCHANGED integration

\* The unique index on project and name, which Jenkins has not.
Conflicts(n, i) == kind # "jenkins" /\ n # Unset /\ Taken(n, i)

Insert(c) ==
    LET i == call[c].id  set == call[c].set IN
    /\ call[c].pc = "insert"
    /\ IF Conflicts(set.name, i) THEN Fail(c)
       ELSE /\ integration' = [integration EXCEPT ![i] =
                  [is |-> "stored", name |-> set.name, active |-> set.active,
                   secret |-> set.secret, error |-> 0]]
            /\ call' = [call EXCEPT ![c].pc = "answer"]
    /\ UNCHANGED <<kind, observer, minted, known, past>>

-----------------------------------------------------------------------------
(***************************************************************************)
(* Update and rotate: findOne, the checks, and save.                       *)
(***************************************************************************)

UpdateSecurityIntegration(c, i) ==
    /\ kind = "security" /\ IsStored(i)
    /\ \E n \in Names \cup {Unset}, a \in Active \cup {Unset} :
          /\ <<n, a>> # <<Unset, Unset>>
          /\ ~Taken(n, i)
          /\ StartCall(c, "save", i,
                   Modified(integration[i], [name |-> n, active |-> a, secret |-> 0]))

RotateSecurityIntegrationSecret(c, i) ==
    /\ kind = "security" /\ IsStored(i) /\ MayMint
    /\ StartCall(c, "save", i, [Nothing EXCEPT !.secret = NewSecret])

UpdateOrchestrationIntegration(c, i) ==
    /\ kind = "orchestration" /\ IsStored(i)
    /\ \E n \in Names \cup {Unset}, s \in IF MayMint THEN {0, NewSecret} ELSE {0} :
          /\ <<n, s>> # <<Unset, 0>>
          /\ ~Taken(n, i)
          /\ StartCall(c, "save", i,
                   Modified(integration[i], [name |-> n, active |-> Unset, secret |-> s]))

\* A document that is gone by now is not made again: save() throws.
Save(c) ==
    LET i == call[c].id  set == call[c].set  doc == integration[i] IN
    /\ call[c].pc = "save"
    /\ IF ~IsStored(i) \/ Conflicts(set.name, i)
         THEN Fail(c) /\ UNCHANGED past
         ELSE /\ integration' = [integration EXCEPT
                    ![i].name   = IF set.name = Unset THEN @ ELSE set.name,
                    ![i].active = IF set.active = Unset THEN @ ELSE set.active,
                    ![i].secret = IF set.secret = 0 THEN @ ELSE set.secret]
              /\ past' = IF set.secret \in {0, doc.secret} THEN past
                         ELSE past \cup {doc.secret}
              /\ call' = [call EXCEPT ![c].pc = "answer"]
    /\ UNCHANGED <<kind, observer, minted, known>>

Delete(i) ==
    /\ IsStored(i)
    /\ integration' = [integration EXCEPT ![i] = Missing("deleted")]
    /\ UNCHANGED <<kind, call, observer, minted, known, past>>

\* Generated secrets are shown this once; a token is the caller's own.
Told(c) == IF kind = "orchestration" THEN known ELSE known \cup {call[c].set.secret}

AnswerIfLogged(c) ==
    /\ call[c].pc = "answer"
    /\ known' \in {known, Told(c)}
    /\ call' = [call EXCEPT ![c] = NoCall]
    /\ UNCHANGED <<kind, integration, observer, minted, past>>

\* The audit log is written, or fails and is ignored, and the caller is answered.
Answer(c) ==
    /\ call[c].pc = "answer"
    /\ known' = Told(c)
    /\ call' = [call EXCEPT ![c] = NoCall]
    /\ UNCHANGED <<kind, integration, observer, minted, past>>

CallDies(c) ==
    /\ call[c].pc # "idle"
    /\ known' = Told(c)
    /\ call' = [call EXCEPT ![c] = NoCall]
    /\ UNCHANGED <<kind, integration, observer, minted, past>>

-----------------------------------------------------------------------------
(***************************************************************************)
(* The orchestration worker.                                               *)
(***************************************************************************)

\* Scheduled reconciliation has a job for every integration; the job reads the
\* integration when it starts.
StartJob(o, i) ==
    /\ kind = "orchestration"
    /\ observer[o] = NoJob
    /\ IsStored(i)
    /\ observer' = [observer EXCEPT ![o] = [id |-> i, token |-> integration[i].secret]]
    /\ UNCHANGED <<kind, integration, call, minted, known, past>>

NoteFailureOnly(doc, token) == IF token \in BadTokens THEN [doc EXCEPT !.error = token] ELSE doc

\* A failure leaves its message on the integration, a success clears it.
Note(doc, token) == [doc EXCEPT !.error = IF token \in BadTokens THEN token ELSE 0]

\* findByIdAndUpdate: nothing happens if the integration is gone.
EndJob(o) ==
    /\ observer[o] # NoJob
    /\ LET i == observer[o].id IN
       integration' = IF IsStored(i)
                        THEN [integration EXCEPT ![i] = Note(@, observer[o].token)]
                        ELSE integration
    /\ observer' = [observer EXCEPT ![o] = NoJob]
    /\ UNCHANGED <<kind, call, minted, known, past>>

-----------------------------------------------------------------------------
IntegrationsNext ==
    \/ \E c \in Callers :
          \/ Insert(c) \/ Save(c) \/ Answer(c) \/ CallDies(c)
          \/ \E i \in Ids :
                \/ UpdateSecurityIntegration(c, i) \/ UpdateOrchestrationIntegration(c, i)
                \/ RotateSecurityIntegrationSecret(c, i)
                \/ \E n \in Names :
                      \/ CreateSecurityIntegration(c, i, n)
                      \/ CreateOrchestrationIntegration(c, i, n)
                      \/ CreateJenkinsIntegration(c, i, n)
    \/ \E i \in Ids : Delete(i) \/ \E o \in Observers : StartJob(o, i)
    \/ \E o \in Observers : EndJob(o)

\* Reconciliation is scheduled for ever and the queue is first in, first out, so
\* every integration gets its turn; a job that started ends.
IntegrationsFairness ==
    /\ \A i \in Ids : SF_integrationVars(\E o \in Observers : StartJob(o, i))
    /\ \A o \in Observers : WF_integrationVars(EndJob(o))

-----------------------------------------------------------------------------
(***************************************************************************)
(* Properties.                                                             *)
(***************************************************************************)

\* A credential that was replaced is never back in force, whatever other updates
\* of the same integration overlap with its replacement.
NoSecretReturns ==
    \A i \in Ids : IsStored(i) => integration[i].secret \notin past

\* The secret in force is one that a caller was told, however rotations overlap and
\* whether the audit log can be written or not, unless the process died on the
\* request that set it or is still at it.
SecretIsKnown ==
    kind # "orchestration" => \A i \in Ids : IsStored(i) =>
        integration[i].secret \in known \cup {call[c].set.secret : c \in Callers}

\* An integration comes to tell whether its present token works, and an error of
\* an earlier one does not stay.
ErrorIsCurrent ==
    <>[](kind = "orchestration" =>
            \A i \in Ids : IsStored(i) =>
                integration[i].error = IF integration[i].secret \in BadTokens
                                         THEN integration[i].secret ELSE 0)
=============================================================================
