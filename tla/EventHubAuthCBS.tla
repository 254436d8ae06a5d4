-------------------------- MODULE EventHubAuthCBS --------------------------
(***************************************************************************)
(* The CBS authorization of a connection, eventhubauth.c, driven by the     *)
(* token handling of DoWork: handle_sas_token_auth in eventhubclient_ll.c   *)
(* and HandleSASTokenAuth in eventhubreceiver_ll.c, which are the same.     *)
(*                                                                         *)
(* Time is the wall clock that get_time reads, in seconds.  It advances and *)
(* may be set back between any two steps; reading it may fail.  Differences *)
(* of times are unsigned.  A token is known by its expiration time, a       *)
(* STRING by the handle the allocator gave it, which it may give again      *)
(* after STRING_delete.  0 stands for no token.  cbsAuthCompleteTimestamp   *)
(* is left out: nothing reads it.                                           *)
(***************************************************************************)
EXTENDS Naturals

CONSTANTS Credentials,     \* of {"AUTO", "EXT"}: EVENTHUBAUTH_CREDENTIAL_TYPE_SASTOKEN_...
          Handles,         \* the STRING handles that the allocator can give
          NULL,
          ExpirationTime,  \* sasTokenExpirationTimeInSec
          RefreshPeriod,   \* sasTokenRefreshPeriodInSecs
          PutTimeouts,     \* possible sasTokenAuthFailureTimeoutInSecs
          ExtExpirations,  \* expiration times of the external tokens
          MaxTime,         \* bound on the clock
          Wrap             \* 2^64, what unsigned differences wrap at

ASSUME TimeAssumption ==
  /\ ExpirationTime \in Nat /\ RefreshPeriod \in Nat
  /\ MaxTime \in Nat /\ Wrap \in Nat
  /\ 0 < RefreshPeriod /\ RefreshPeriod <= ExpirationTime
  /\ MaxTime + ExpirationTime < Wrap
  /\ PutTimeouts \subseteq Nat
  /\ ExtExpirations \subseteq Nat \ {0}

ASSUME StringAssumption == /\ NULL \notin Handles
                           /\ Credentials \subseteq {"AUTO", "EXT"}

VARIABLES
  now,                      \* the wall clock
  credential,               \* of the client
  extConfig,                \* the external token the client was created with
  extRefresh,               \* a refresh token that waits for DoWork
  cbsStatus,                \* "NONE" while there is no EVENTHUBAUTH_CBS_HANDLE
  cbOperation,
  sasTokenCreateTimestamp,
  sasTokenPutTime,
  authFailureTimeout,       \* sasTokenAuthFailureTimeoutInSecs
  extSASTokenExp,           \* extSASTokenExpTSInEpochSec
  sasTokenHandle,
  extSASToken,
  strings,                  \* the STRINGs not deleted; was one deleted twice
  handling,                 \* the caller: idle, the status it acts on, ERROR
                            \* or connection_dowork
  putting,                  \* the token in a put that is not answered
  granted                   \* the last token the service accepted

clientVars == <<credential, extConfig>>
timeVars == <<sasTokenCreateTimestamp, sasTokenPutTime, authFailureTimeout>>
putVars  == <<cbsStatus, cbOperation, putting>>
tokenVars == <<extSASTokenExp, sasTokenHandle, extSASToken, strings>>
vars == <<now, clientVars, extRefresh, timeVars, putVars, tokenVars, handling,
          granted>>

Failures == {"FAILURE", "EXPIRED", "TIMEOUT", "ERROR"}
Statuses == {"IDLE", "IN_PROGRESS", "OK", "REFRESH_REQUIRED", "FAILURE",
             "EXPIRED", "TIMEOUT"}
-----------------------------------------------------------------------------
\* secondsSinceEpoch - t, in uint64_t.
Elapsed(t) == IF now >= t THEN now - t ELSE Wrap - (t - now)

\* STRING_delete: m with h deleted.
Delete(m, h) == IF h = NULL THEN m
                ELSE [live |-> m.live \ {h},
                      twice |-> m.twice \/ h \notin m.live]

\* The STRINGs of m and a new one.
Add(m, h) == [m EXCEPT !.live = @ \cup {h}]

Init == /\ now \in 0..MaxTime
        /\ credential \in Credentials
        /\ extConfig \in ExtExpirations
        /\ extRefresh = 0
        /\ cbsStatus = "NONE"
        /\ cbOperation = "NONE"
        /\ sasTokenCreateTimestamp = 0
        /\ sasTokenPutTime = 0
        /\ authFailureTimeout = 0
        /\ extSASTokenExp = 0
        /\ sasTokenHandle = NULL
        /\ extSASToken = NULL
        /\ strings = [live |-> {}, twice |-> FALSE]
        /\ handling = "idle"
        /\ putting = 0
        /\ granted = 0
-----------------------------------------------------------------------------
Tick == /\ now < MaxTime
        /\ now' = now + 1
        /\ UNCHANGED <<clientVars, extRefresh, timeVars, putVars, tokenVars,
                       handling, granted>>

SetClockBack == /\ now > 0
                /\ now' \in 0..(now - 1)
                /\ UNCHANGED <<clientVars, extRefresh, timeVars, putVars,
                               tokenVars, handling, granted>>

\* RefreshSASTokenAsync, between DoWork calls or in a callback, keeps the token
\* for DoWork.  The receiver's is also called before the stack is up.
RefreshSASTokenAsync ==
  /\ handling \in Failures \cup {"idle", "connection_dowork"}
  /\ credential = "EXT"
  /\ extRefresh = 0
  /\ extRefresh' \in ExtExpirations
  /\ UNCHANGED <<now, clientVars, timeVars, putVars, tokenVars, handling, granted>>

\* The bring-up creates the handle, with a clone of the token the client was
\* created with.  A failure leaves nothing behind.
EventHubAuthCBS_Create ==
  /\ handling = "idle"
  /\ cbsStatus = "NONE"
  /\ cbsStatus' = "IDLE"
  /\ cbOperation' = "NONE"
  /\ authFailureTimeout' \in PutTimeouts
  /\ sasTokenCreateTimestamp' = 0
  /\ sasTokenPutTime' = 0
  /\ sasTokenHandle' = NULL
  /\ IF credential = "EXT"
     THEN \E h \in Handles \ strings.live :
            /\ extSASToken' = h
            /\ strings' = Add(strings, h)
            /\ extSASTokenExp' = extConfig
     ELSE /\ extSASToken' = NULL
          /\ extSASTokenExp' = 0
          /\ UNCHANGED strings
  /\ UNCHANGED <<now, clientVars, extRefresh, putting, handling, granted>>

\* The teardown of the stack, after a failure or for any other reason; the
\* connection the service granted the token to goes with it.  The receiver
\* keeps a refresh token when it gives up in its bring-up.
EventHubAuthCBS_Destroy ==
  /\ handling \in Failures \cup {"idle"}
  /\ cbsStatus # "NONE"
  /\ cbsStatus' = "NONE"
  /\ handling' = "idle"
  /\ extRefresh' \in {0, extRefresh}
  /\ cbOperation' = "NONE"
  /\ strings' = Delete(Delete(strings, sasTokenHandle), extSASToken)
  /\ sasTokenHandle' = NULL
  /\ extSASToken' = NULL
  /\ putting' = 0
  /\ granted' = 0
  /\ UNCHANGED <<now, clientVars, timeVars, extSASTokenExp>>
-----------------------------------------------------------------------------
(* EventHubAuthCBS_GetStatus, the first step of the token handling. *)

\* Mutant: the operation is expected to have ended.
CheckPutTimeoutStatusNoOperation ==
  /\ cbOperation = "NONE"
  /\ authFailureTimeout > 0
  /\ Elapsed(sasTokenPutTime) >= authFailureTimeout

CheckPutTimeoutStatus == /\ cbOperation = "PUT"
                         /\ authFailureTimeout > 0
                         /\ Elapsed(sasTokenPutTime) >= authFailureTimeout

\* Whether the status is one that UpdateEventHubAuthACBSStatus dates.
Dated == credential = "AUTO" /\ cbsStatus \in {"OK", "REFRESH_REQUIRED"}

\* CheckExpirationAndRefreshStatus and what it does to the status.
AgedStatus ==
  IF Elapsed(sasTokenCreateTimestamp) >= ExpirationTime THEN "EXPIRED"
  ELSE IF Elapsed(sasTokenCreateTimestamp) >= RefreshPeriod
       THEN "REFRESH_REQUIRED" ELSE cbsStatus

UpdateEventHubAuthACBSStatus ==
  IF Dated THEN AgedStatus
  ELSE IF cbsStatus = "IN_PROGRESS" /\ CheckPutTimeoutStatus
       THEN "TIMEOUT" ELSE cbsStatus

ClockFails == /\ Dated \/ cbsStatus = "IN_PROGRESS"
              /\ handling' = "ERROR"
              /\ UNCHANGED cbsStatus

EventHubAuthCBS_GetStatus ==
  /\ handling = "idle"
  /\ cbsStatus # "NONE"
  /\ \/ ClockFails
     \/ /\ cbsStatus' = UpdateEventHubAuthACBSStatus
        /\ handling' = cbsStatus'
  /\ UNCHANGED <<now, clientVars, extRefresh, timeVars, cbOperation, putting,
                 tokenVars, granted>>
-----------------------------------------------------------------------------
(* EventHubAuthCBS_Authenticate and EventHubAuthCBS_Refresh.  Each disjunct   *)
(* that returns an error leaves the handle to its caller, which destroys it.  *)

\* Mutant: the caller goes on although the call returned an error.
ReturnsErrorUnnoticed == handling' = "connection_dowork"

ReturnsError == handling' = "ERROR"

\* Mutant: the new token is deleted in place of the old one.
PutTokenDeletingNew(m, h, exp) ==
  /\ strings' = Delete(m, IF sasTokenHandle = NULL THEN NULL ELSE h)
  /\ sasTokenHandle' = h
  /\ cbOperation' = "PUT"
  /\ sasTokenPutTime' = now
  /\ handling' = "connection_dowork"
  /\ cbsStatus' = "IN_PROGRESS"
  /\ putting' = exp

\* Replace the token, expiring at exp, by h and put it; STRING_c_str or
\* cbs_put_token_async may fail.
PutToken(m, h, exp) ==
  /\ strings' = Delete(m, sasTokenHandle)
  /\ sasTokenHandle' = h
  /\ \/ /\ ReturnsError
        /\ UNCHANGED <<sasTokenPutTime, putVars>>
     \/ /\ cbOperation' = "PUT"
        /\ sasTokenPutTime' = now
        /\ \/ /\ ReturnsError
              /\ UNCHANGED <<cbsStatus, putting>>
           \/ /\ handling' = "connection_dowork"
              /\ cbsStatus' = "IN_PROGRESS"
              /\ putting' = exp

\* get_time fails, or SASToken_Create once the creation time was stored.
AuthenticateAuto ==
  /\ credential = "AUTO"
  /\ \/ /\ ReturnsError
        /\ sasTokenCreateTimestamp' \in {sasTokenCreateTimestamp, now}
        /\ UNCHANGED <<sasTokenPutTime, putVars, sasTokenHandle, strings>>
     \/ /\ cbsStatus # "IN_PROGRESS"
        /\ sasTokenCreateTimestamp' = now
        /\ \E h \in Handles \ strings.live :
             PutToken(Add(strings, h), h, now + ExpirationTime)
  /\ UNCHANGED <<extSASTokenExp, extSASToken>>

\* With the STRINGs m, the token h that expires at exp is put as it is.  It is
\* refused while now is before its expiration.
AuthenticateExt(m, h, exp) ==
  /\ credential = "EXT"
  /\ \/ /\ ReturnsError
        /\ strings' = m
        /\ UNCHANGED <<sasTokenPutTime, putVars, sasTokenHandle>>
     \/ /\ cbsStatus # "IN_PROGRESS"
        /\ now >= exp
        /\ PutToken(m, h, exp)
  /\ UNCHANGED sasTokenCreateTimestamp

EventHubAuthCBS_Authenticate ==
  /\ handling = "IDLE"
  /\ \/ AuthenticateAuto
     \/ /\ AuthenticateExt(strings, extSASToken, extSASTokenExp)
        /\ UNCHANGED <<extSASTokenExp, extSASToken>>
  /\ UNCHANGED <<now, clientVars, extRefresh, authFailureTimeout, granted>>

\* The status is brought up to date once more before the token is replaced.
RefreshAuto ==
  /\ handling = "REFRESH_REQUIRED"
  /\ \/ /\ UpdateEventHubAuthACBSStatus = "REFRESH_REQUIRED"
        /\ AuthenticateAuto
     \/ /\ ReturnsError
        /\ cbsStatus' \in {cbsStatus, UpdateEventHubAuthACBSStatus}
        /\ UNCHANGED <<cbOperation, putting, sasTokenCreateTimestamp,
                       sasTokenPutTime, tokenVars>>
  /\ UNCHANGED <<now, clientVars, extRefresh, authFailureTimeout, granted>>

\* The refresh token replaces the external one, unless it cannot be cloned,
\* parsed or is for another URI, and is then authenticated.
RefreshExt ==
  /\ handling = "OK"
  /\ extRefresh # 0
  /\ \/ /\ ReturnsError
        /\ UNCHANGED <<sasTokenCreateTimestamp, sasTokenPutTime, putVars,
                       tokenVars>>
     \/ \E h \in Handles \ strings.live :
          /\ extSASToken' = h
          /\ extSASTokenExp' = extRefresh
          /\ AuthenticateExt(Delete(Add(strings, h), extSASToken), h, extRefresh)
  /\ extRefresh' = 0
  /\ UNCHANGED <<now, clientVars, authFailureTimeout, granted>>

\* Nothing to do but wait for the put, or send: then connection_dowork.
GoOn ==
  /\ handling = "IN_PROGRESS" \/ (handling = "OK" /\ extRefresh = 0)
  /\ handling' = "connection_dowork"
  /\ UNCHANGED <<now, clientVars, extRefresh, timeVars, putVars, tokenVars,
                 granted>>
-----------------------------------------------------------------------------
(* connection_dowork. *)

\* Mutant: the token's age counts from the time it was granted.
PutCompletesRestamping(status) ==
  /\ handling = "connection_dowork"
  /\ putting # 0
  /\ cbsStatus' = status
  /\ cbOperation' = "NONE"
  /\ putting' = 0
  /\ granted' = IF status = "OK" THEN putting ELSE granted
  /\ sasTokenCreateTimestamp' = now
  /\ UNCHANGED <<now, clientVars, extRefresh, sasTokenPutTime,
                 authFailureTimeout, tokenVars, handling>>

OnCBSPutTokenOperationComplete(status) ==
  /\ handling = "connection_dowork"
  /\ putting # 0
  /\ cbsStatus' = status
  /\ cbOperation' = "NONE"
  /\ putting' = 0
  /\ granted' = IF status = "OK" THEN putting ELSE granted
  /\ UNCHANGED <<now, clientVars, extRefresh, timeVars, tokenVars, handling>>

ConnectionDoworkReturns ==
  /\ handling = "connection_dowork"
  /\ handling' = "idle"
  /\ UNCHANGED <<now, clientVars, extRefresh, timeVars, putVars, tokenVars,
                 granted>>
-----------------------------------------------------------------------------
\* What a DoWork call does with the handle it found.
Handle == \/ EventHubAuthCBS_GetStatus
          \/ EventHubAuthCBS_Authenticate
          \/ RefreshAuto
          \/ RefreshExt
          \/ GoOn
          \/ ConnectionDoworkReturns
          \/ handling \in Failures /\ EventHubAuthCBS_Destroy

Next == \/ Tick
        \/ SetClockBack
        \/ RefreshSASTokenAsync
        \/ EventHubAuthCBS_Create
        \/ EventHubAuthCBS_Destroy
        \/ Handle
        \/ \E status \in {"OK", "FAILURE"} : OnCBSPutTokenOperationComplete(status)

Spec == Init /\ [][Next]_vars

\* DoWork is called again and again, time goes on, and the clock is set back
\* finitely often only.
FairSpec == /\ Spec
            /\ WF_vars(Handle)
            /\ WF_vars(Tick)
            /\ <>[][~SetClockBack]_vars
-----------------------------------------------------------------------------
TypeOK ==
  /\ now \in 0..MaxTime
  /\ credential \in Credentials
  /\ extConfig \in ExtExpirations
  /\ extRefresh \in ExtExpirations \cup {0}
  /\ cbsStatus \in Statuses \cup {"NONE"}
  /\ cbOperation \in {"NONE", "PUT"}
  /\ sasTokenCreateTimestamp \in 0..MaxTime
  /\ sasTokenPutTime \in 0..MaxTime
  /\ authFailureTimeout \in PutTimeouts \cup {0}
  /\ extSASTokenExp \in ExtExpirations \cup {0}
  /\ sasTokenHandle \in Handles \cup {NULL}
  /\ extSASToken \in Handles \cup {NULL}
  /\ strings \in [live : SUBSET Handles, twice : BOOLEAN]
  /\ handling \in Statuses \cup {"idle", "connection_dowork", "ERROR"}
  /\ putting \in Nat
  /\ granted \in Nat
  /\ cbsStatus = "NONE" => sasTokenHandle = NULL /\ extSASToken = NULL

\* What the age of sasTokenCreateTimestamp tells about the token that the
\* service will accept or has accepted.
Stamped ==
  credential = "AUTO" =>
    /\ putting # 0 => putting = sasTokenCreateTimestamp + ExpirationTime
    /\ cbsStatus \in {"OK", "REFRESH_REQUIRED"} /\ handling # "ERROR" =>
         granted = sasTokenCreateTimestamp + ExpirationTime

\* Which statuses a put and the caller's steps go with.
InStep ==
  /\ cbsStatus = "IN_PROGRESS" => putting # 0 /\ cbOperation = "PUT"
  /\ putting # 0 => cbsStatus \in {"IN_PROGRESS", "TIMEOUT"}
  /\ handling \in Statuses => cbsStatus = handling
  /\ handling \notin Statuses \cup {"ERROR"} =>
       cbsStatus \notin {"EXPIRED", "TIMEOUT"}
  /\ cbsStatus = "NONE" => handling = "idle"
  /\ credential = "EXT" /\ cbsStatus # "NONE" => extSASTokenExp # 0
  /\ credential = "EXT" => cbsStatus \notin {"EXPIRED", "REFRESH_REQUIRED"}

\* Every STRING is owned by the handle, and with a generated token by one
\* member only; none is lost and none is deleted twice.
StringsOwned ==
  /\ strings.live \subseteq {sasTokenHandle, extSASToken}
  /\ credential = "AUTO" => /\ extSASToken = NULL
                            /\ ~strings.twice
                            /\ strings.live = {sasTokenHandle} \ {NULL}

IInv == TypeOK /\ Stamped /\ InStep /\ StringsOwned

\* When the caller is told OK, the token that the service holds is not due
\* for its refresh, when it is told REFRESH_REQUIRED that token has not
\* expired: whatever calls failed before, and however the clock was set.
OnlyFreshTokensUsed ==
  [][credential = "AUTO" /\ EventHubAuthCBS_GetStatus =>
       /\ handling' = "OK" => now + (ExpirationTime - RefreshPeriod) < granted
       /\ handling' = "REFRESH_REQUIRED" => now < granted]_vars

\* A put that is never answered, or a failed one, does not block the client:
\* the handle ends up authorized or replaced (a time-out of zero is none).
PutEnds == /\ cbsStatus = "IN_PROGRESS"
           /\ authFailureTimeout > 0
           /\ sasTokenPutTime + authFailureTimeout <= MaxTime
           ~> cbsStatus \in {"OK", "NONE"}

\* An external token is put only before it expires
\* (SRS_EVENTHUB_AUTH_29_104).
OnlyLiveTokensPut == [][putting' # putting /\ putting' # 0 => now < putting']_vars

\* The status before it was dated, and the report that the caller acts on.
Undated == IF cbsStatus \in {"EXPIRED", "REFRESH_REQUIRED"} THEN "OK"
           ELSE IF cbsStatus = "TIMEOUT" THEN "IN_PROGRESS" ELSE cbsStatus
Told == IF handling \in {"idle", "connection_dowork"} THEN "none" ELSE handling

Authorization ==
  INSTANCE TokenAuthorization
    WITH status <- Undated, timed <- authFailureTimeout > 0,
         pending <- extRefresh # 0, report <- Told

\* The handle and its caller keep to the protocol of TokenAuthorization: a
\* token is put only when the status just reported asks for it, never while
\* another put may be answered, and a handle that reported a failure is
\* destroyed before anything else is done with it.
AuthorizationSpec == Authorization!Spec

\* Each STRING is deleted once (SRS_EVENTHUB_AUTH_29_072, 29_076, 29_106).
StringsDeletedOnce == ~strings.twice
=============================================================================
