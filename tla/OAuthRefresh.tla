---------------------------- MODULE OAuthRefresh ----------------------------
(***************************************************************************)
(* OAuthConnection (packages/mcp/src/oauth.ts): callers that overlap ask   *)
(* one connection for the Authorization header, each refreshes an expired  *)
(* token by itself, and what was received is kept and saved.  The token    *)
(* endpoint may replace the refresh token and revoke the one it was given  *)
(* (rotates), or answer without one.  A request, its answer and a save may *)
(* fail, and the process may die, at any moment.                           *)
(***************************************************************************)
EXTENDS Integers

CONSTANTS
  Callers,      \* overlapping calls of getAuthorizationHeader()
  SavesInTime,  \* no access token expires while it is saved
  MaxIssued     \* bound on the tokens the endpoint issues

VARIABLES
  tokens,    \* what the connection holds
  stored,    \* what the token store holds
  expired,   \* the newest access token that the clock has passed
  call,      \* what each caller awaits
  rotates,   \* the manner of the token endpoint
  accepted,  \* the refresh tokens that the endpoint takes
  issued,    \* tokens issued so far
  adrift,    \* refresh tokens of requests that nobody waits for any more
  unsaved,   \* the save of what the connection holds has failed
  lost       \* a refresh token has been issued that nobody received or kept

ovars == <<tokens, stored, expired, call, rotates, accepted, issued, adrift, unsaved, lost>>

Idle == [at |-> "idle", access |-> 0, refresh |-> 0]
Pair(a, r) == [access |-> a, refresh |-> r]

\* The flow is complete, and its tokens were set and saved.
Init ==
  /\ tokens = Pair(1, 1) /\ stored = Pair(1, 1)
  /\ expired = 0
  /\ call = [c \in Callers |-> Idle]
  /\ rotates \in BOOLEAN
  /\ accepted = {1} /\ issued = 1
  /\ adrift = {} /\ unsaved = FALSE /\ lost = FALSE

-----------------------------------------------------------------------------
\* The clock passes the access token in use.
Expire ==
  /\ expired < tokens.access
  /\ SavesInTime => \A c \in Callers : call[c].at # "saving"
  /\ expired' = tokens.access
  /\ UNCHANGED <<tokens, stored, call, rotates, accepted, issued, adrift, unsaved, lost>>

IsExpired == tokens.access <= expired

\* The refresh token goes out with the request; a token that is not expired is
\* the answer, and nothing changes.
Ask(c) ==
  /\ call[c].at = "idle" /\ IsExpired
  /\ call' = [call EXCEPT ![c] = [Idle EXCEPT !.at = "sent", !.refresh = tokens.refresh]]
  /\ UNCHANGED <<tokens, stored, expired, rotates, accepted, issued, adrift, unsaved, lost>>

\* The endpoint refuses a refresh token that it has revoked.
Endpoint(c) ==
  /\ call[c].at = "sent" /\ issued < MaxIssued
  /\ IF call[c].refresh \in accepted
     THEN /\ issued' = issued + 1
          /\ call' = [call EXCEPT ![c] =
                        [at |-> "answered", access |-> issued + 1,
                         refresh |-> IF rotates THEN issued + 1 ELSE 0]]
          /\ accepted' = IF rotates THEN {issued + 1} ELSE accepted
     ELSE /\ call' = [call EXCEPT ![c].at = "refused"]
          /\ UNCHANGED <<issued, accepted>>
  /\ UNCHANGED <<tokens, stored, expired, rotates, adrift, unsaved, lost>>

\* The fetch rejects, with the request or its answer on the way, or the answer
\* cannot be parsed: the call throws.
GivesUp(c) ==
  /\ call[c].at \in {"sent", "answered"}
  /\ call' = [call EXCEPT ![c] = Idle]
  /\ adrift' = IF call[c].at = "sent" THEN adrift \cup {call[c].refresh} ELSE adrift
  /\ lost' = (lost \/ (rotates /\ call[c].at = "answered"))
  /\ UNCHANGED <<tokens, stored, expired, rotates, accepted, issued, unsaved>>

\* Such a request may still reach the endpoint, once.
Adrift(r) ==
  /\ r \in adrift /\ issued < MaxIssued
  /\ adrift' = adrift \ {r}
  /\ IF rotates /\ r \in accepted
     THEN issued' = issued + 1 /\ accepted' = {issued + 1} /\ lost' = TRUE
     ELSE UNCHANGED <<issued, accepted, lost>>
  /\ UNCHANGED <<tokens, stored, expired, call, rotates, unsaved>>

\* The call throws, and the connection keeps what it has.
Throw(c) ==
  /\ call[c].at = "refused"
  /\ call' = [call EXCEPT ![c] = Idle]
  /\ UNCHANGED <<tokens, stored, expired, rotates, accepted, issued, adrift, unsaved, lost>>

\* The faulty variant takes the answer as it is.
AsAnswered(fresh) == fresh

\* An answer without a refresh token leaves the one in use.
Kept(fresh) ==
  [fresh EXCEPT !.refresh = IF fresh.refresh = 0 THEN tokens.refresh ELSE fresh.refresh]

Receive(c) ==
  /\ call[c].at = "answered"
  /\ tokens' = Kept(Pair(call[c].access, call[c].refresh))
  /\ call' = [call EXCEPT ![c] = [at |-> "saving", access |-> tokens'.access,
                                  refresh |-> tokens'.refresh]]
  /\ UNCHANGED <<stored, expired, rotates, accepted, issued, adrift, unsaved, lost>>

\* The save lands, and the call returns the header.
Saved(c) ==
  /\ call[c].at = "saving"
  /\ stored' = Pair(call[c].access, call[c].refresh)
  /\ unsaved' = FALSE
  /\ call' = [call EXCEPT ![c] = Idle]
  /\ UNCHANGED <<tokens, expired, rotates, accepted, issued, adrift, lost>>

\* The save rejects, and the call throws: the connection goes on with what it
\* received, and nothing saves it again before the next refresh.
SaveFails(c) ==
  /\ call[c].at = "saving"
  /\ unsaved' = TRUE
  /\ call' = [call EXCEPT ![c] = Idle]
  /\ UNCHANGED <<tokens, stored, expired, rotates, accepted, issued, adrift, lost>>

\* The process dies, and a new one loads what was saved.
Restart ==
  /\ tokens' = stored
  /\ call' = [c \in Callers |-> Idle]
  /\ adrift' = adrift \cup {call[c].refresh : c \in {d \in Callers : call[d].at = "sent"}}
  /\ unsaved' = FALSE
  /\ lost' = (lost \/ (rotates /\ (unsaved \/ \E c \in Callers :
                                                call[c].at \in {"answered", "saving"})))
  /\ UNCHANGED <<stored, expired, rotates, accepted, issued>>

Next ==
  \/ \E c \in Callers : \/ Ask(c) \/ Endpoint(c) \/ GivesUp(c) \/ Throw(c)
                        \/ Receive(c) \/ Saved(c) \/ SaveFails(c)
  \/ \E r \in adrift : Adrift(r)
  \/ Expire \/ Restart

Spec == Init /\ [][Next]_ovars

-----------------------------------------------------------------------------
\* Every variable has its type.
TypeOK ==
  /\ tokens \in [access : 1..MaxIssued, refresh : 0..MaxIssued]
  /\ stored \in [access : 1..MaxIssued, refresh : 0..MaxIssued]
  /\ accepted \subseteq 1..MaxIssued /\ adrift \subseteq 0..MaxIssued

\* An endpoint that does not rotate takes what the connection and the store hold,
\* whatever fails and however many callers refresh at once.  One that rotates takes
\* what the connection holds, when no call is between the endpoint and the
\* connection, and what the store holds, when none is before the store either and
\* the last save has not failed; unless the token that replaced it was lost: its
\* answer came to nobody, or the process died before it was saved.
StaysLoggedIn ==
  LET answered == \E c \in Callers : call[c].at = "answered"
      saving == \E c \in Callers : call[c].at = "saving"
  IN /\ ~ rotates => {tokens.refresh, stored.refresh} \subseteq accepted
     /\ rotates /\ ~ lost /\ ~ answered =>
          /\ tokens.refresh \in accepted
          /\ ~ saving /\ ~ unsaved => stored.refresh \in accepted

\* oauth.ts, of OAuthConnection: "If a {@link OAuthTokenStore} is provided, tokens
\* are persisted/restored across process restarts".
NextProcessLoggedIn ==
  ~ lost /\ (\A c \in Callers : call[c].at \notin {"answered", "saving"})
    => stored.refresh \in accepted

\* A call is refused only if the connection has nothing that would do: what the
\* comment of getAuthorizationHeader says of the renewal.
RefusedForAReason ==
  \A c \in Callers : call[c].at = "refused" => call[c].refresh = tokens.refresh
=============================================================================
