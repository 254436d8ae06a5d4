---------------------- MODULE EventHubAuthCBS_proofs ----------------------
(***************************************************************************)
(* Proofs about EventHubAuthCBS, for all periods, time-outs, token          *)
(* expirations and clocks, and for both credentials.                        *)
(***************************************************************************)
EXTENDS EventHubAuthCBS, TLAPS

\* The initial states satisfy the invariant.
LEMMA InitIInv == Init => IInv
<1> SUFFICES ASSUME Init PROVE IInv
  OBVIOUS
<1> USE DEF Init, Statuses
<1>1. TypeOK
  BY TimeAssumption DEF TypeOK
<1>2. Stamped /\ InStep /\ StringsOwned
  BY DEF Stamped, InStep, StringsOwned
<1> QED BY <1>1, <1>2 DEF IInv

\* An unsigned difference that is small is the true age: a clock that was set
\* back to before t makes it huge.
LEMMA ElapsedIsAge ==
  ASSUME now \in 0..MaxTime, NEW t \in 0..MaxTime
  PROVE  /\ Elapsed(t) \in Nat
         /\ Elapsed(t) < ExpirationTime => t <= now /\ Elapsed(t) = now - t
BY TimeAssumption DEF Elapsed

\* The updates a GetStatus or Refresh may make to the status.
LEMMA UpdatedStatus ==
  ASSUME IInv
  PROVE  /\ UpdateEventHubAuthACBSStatus \in Statuses \cup {"NONE"}
         /\ UpdateEventHubAuthACBSStatus # cbsStatus =>
              \/ /\ Dated
                 /\ UpdateEventHubAuthACBSStatus \in {"EXPIRED", "REFRESH_REQUIRED"}
              \/ /\ cbsStatus = "IN_PROGRESS"
                 /\ UpdateEventHubAuthACBSStatus = "TIMEOUT"
BY DEF IInv, TypeOK, Statuses, UpdateEventHubAuthACBSStatus, AgedStatus, Dated

\* The clock moves; nothing else does.
LEMMA ClockStep ==
  ASSUME IInv, Tick \/ SetClockBack PROVE IInv'
<1> USE DEF clientVars, timeVars, putVars, tokenVars
<1>1. now' \in 0..MaxTime
  BY TimeAssumption DEF IInv, TypeOK, Tick, SetClockBack
<1>2. UNCHANGED <<clientVars, extRefresh, timeVars, putVars, tokenVars, handling, granted>>
  BY DEF Tick, SetClockBack
<1>3. TypeOK'
  BY <1>1, <1>2 DEF IInv, TypeOK
<1>4. Stamped' /\ InStep' /\ StringsOwned'
  BY <1>2 DEF IInv, Stamped, InStep, StringsOwned
<1> QED BY <1>3, <1>4 DEF IInv

\* The steps that touch neither the token nor its times.
LEMMA SimpleStep ==
  ASSUME IInv, RefreshSASTokenAsync \/ GoOn \/ ConnectionDoworkReturns
  PROVE  IInv'
<1> USE DEF clientVars, timeVars, putVars, tokenVars, Statuses
<1>1. CASE RefreshSASTokenAsync
  BY <1>1 DEF IInv, TypeOK, Stamped, InStep, StringsOwned, RefreshSASTokenAsync
<1>2. CASE GoOn
  BY <1>2 DEF IInv, TypeOK, Stamped, InStep, StringsOwned, GoOn
<1>3. CASE ConnectionDoworkReturns
  BY <1>3 DEF IInv, TypeOK, Stamped, InStep, StringsOwned, ConnectionDoworkReturns
<1> QED BY <1>1, <1>2, <1>3

LEMMA CreateStep == ASSUME IInv, EventHubAuthCBS_Create PROVE IInv'
<1> USE DEF clientVars, timeVars, putVars, tokenVars, Statuses, EventHubAuthCBS_Create
<1>1. TypeOK'
  <2>1. CASE credential = "EXT"
    BY <2>1, TimeAssumption DEF IInv, TypeOK, Add
  <2>2. CASE credential # "EXT"
    BY <2>2, TimeAssumption DEF IInv, TypeOK
  <2> QED BY <2>1, <2>2
<1>2. Stamped' /\ InStep'
  <2>1. extConfig # 0
    BY TimeAssumption DEF IInv, TypeOK
  <2>2. Stamped'
    BY DEF IInv, Stamped, InStep
  <2>3. InStep'
    BY <2>1 DEF IInv, InStep
  <2> QED BY <2>2, <2>3
<1>3. StringsOwned'
  BY StringAssumption DEF IInv, TypeOK, StringsOwned, Add
<1> QED BY <1>1, <1>2, <1>3 DEF IInv

LEMMA DestroyStep == ASSUME IInv, EventHubAuthCBS_Destroy PROVE IInv'
<1> USE DEF clientVars, timeVars, putVars, tokenVars, Statuses, EventHubAuthCBS_Destroy
<1>1. TypeOK'
  BY DEF IInv, TypeOK, Delete
<1>2. Stamped' /\ InStep'
  BY DEF IInv, Stamped, InStep
<1>3. StringsOwned'
  <2> DEFINE m == Delete(strings, sasTokenHandle)
  <2>1. /\ m.live = strings.live \ {sasTokenHandle}
        /\ credential = "AUTO" => ~m.twice
    BY StringAssumption DEF IInv, TypeOK, StringsOwned, Delete
  <2>2. strings'.live = {}
    BY <2>1, StringAssumption DEF IInv, TypeOK, StringsOwned, Delete
  <2>3. credential = "AUTO" => ~strings'.twice
    BY <2>1 DEF IInv, StringsOwned, Delete
  <2> QED BY <2>2, <2>3 DEF StringsOwned
<1> QED BY <1>1, <1>2, <1>3 DEF IInv

LEMMA GetStatusStep == ASSUME IInv, EventHubAuthCBS_GetStatus PROVE IInv'
<1> USE DEF clientVars, timeVars, putVars, tokenVars, Statuses, EventHubAuthCBS_GetStatus
<1>1. CASE ClockFails
  BY <1>1 DEF IInv, TypeOK, Stamped, InStep, StringsOwned, ClockFails, Dated
<1>2. CASE cbsStatus' = UpdateEventHubAuthACBSStatus /\ handling' = cbsStatus'
  BY <1>2, UpdatedStatus DEF IInv, TypeOK, Stamped, InStep, StringsOwned, Dated
<1> QED BY <1>1, <1>2

LEMMA CompleteStep ==
  ASSUME IInv, NEW status \in {"OK", "FAILURE"},
         OnCBSPutTokenOperationComplete(status)
  PROVE  IInv'
<1> USE DEF clientVars, timeVars, putVars, tokenVars, Statuses,
            OnCBSPutTokenOperationComplete
<1>1. TypeOK'
  BY DEF IInv, TypeOK
<1>2. Stamped' /\ InStep' /\ StringsOwned'
  BY DEF IInv, TypeOK, Stamped, InStep, StringsOwned
<1> QED BY <1>1, <1>2 DEF IInv

\* A put of a generated token just created, before which no put was open.
LEMMA AuthenticateAutoStep ==
  ASSUME IInv, AuthenticateAuto, handling \in {"IDLE", "REFRESH_REQUIRED"},
         UNCHANGED <<now, clientVars, extRefresh, authFailureTimeout, granted>>
  PROVE  IInv'
<1> USE DEF clientVars, timeVars, putVars, tokenVars, Statuses, ReturnsError
<1>1. CASE /\ ReturnsError
           /\ sasTokenCreateTimestamp' \in {sasTokenCreateTimestamp, now}
           /\ UNCHANGED <<sasTokenPutTime, putVars, sasTokenHandle, strings>>
           /\ UNCHANGED <<extSASTokenExp, extSASToken>>
  BY <1>1 DEF IInv, TypeOK, Stamped, InStep, StringsOwned
<1>2. ASSUME sasTokenCreateTimestamp' = now,
             NEW h \in Handles \ strings.live,
             PutToken(Add(strings, h), h, now + ExpirationTime),
             UNCHANGED <<extSASTokenExp, extSASToken>>
      PROVE  IInv'
  <2> USE <1>2 DEF PutToken
  <2>1. strings' = [live |-> {h}, twice |-> FALSE]
    BY StringAssumption DEF AuthenticateAuto, IInv, TypeOK, StringsOwned, Add, Delete
  <2>2. TypeOK'
    BY <2>1, TimeAssumption DEF AuthenticateAuto, IInv, TypeOK, InStep
  <2>3. Stamped' /\ InStep'
    BY TimeAssumption DEF AuthenticateAuto, IInv, TypeOK, Stamped, InStep
  <2>4. StringsOwned'
    <3>1. credential' = "AUTO" /\ extSASToken' = NULL
      BY DEF AuthenticateAuto, IInv, StringsOwned
    <3> QED BY <2>1, <3>1, StringAssumption DEF StringsOwned
  <2> QED BY <2>2, <2>3, <2>4 DEF IInv
<1> QED BY <1>1, <1>2 DEF AuthenticateAuto

\* The same for an external token h, which is the token member or its
\* replacement.
LEMMA AuthenticateExtStep ==
  ASSUME IInv, NEW m \in [live : SUBSET Handles, twice : BOOLEAN],
         NEW h \in Handles \cup {NULL}, NEW exp \in ExtExpirations \cup {0},
         AuthenticateExt(m, h, exp),
         handling \in {"IDLE", "OK"},
         m.live \subseteq {sasTokenHandle, h},
         extSASToken' = h, extSASTokenExp' = exp, exp # 0,
         extRefresh' \in ExtExpirations \cup {0},
         UNCHANGED <<now, clientVars, authFailureTimeout, granted>>
  PROVE  IInv'
<1> USE DEF clientVars, timeVars, putVars, tokenVars, Statuses, ReturnsError
<1>1. exp \in Nat
  BY TimeAssumption
<1>2. credential = "EXT" /\ credential' = "EXT"
  BY DEF AuthenticateExt
<1>3. TypeOK'
  <2>1. strings' \in [live : SUBSET Handles, twice : BOOLEAN]
    <3>1. Delete(m, sasTokenHandle) \in [live : SUBSET Handles, twice : BOOLEAN]
      BY DEF Delete
    <3> QED BY <3>1 DEF AuthenticateExt, PutToken
  <2>2. sasTokenHandle' \in Handles \cup {NULL}
    BY DEF AuthenticateExt, PutToken, IInv, TypeOK
  <2> QED BY <1>1, <2>1, <2>2 DEF AuthenticateExt, PutToken, IInv, TypeOK, InStep
<1>4. Stamped'
  BY <1>2 DEF Stamped
<1>5. InStep'
  BY DEF AuthenticateExt, PutToken, IInv, InStep
<1>6. StringsOwned'
  <2>1. strings'.live \subseteq {sasTokenHandle', h}
    BY StringAssumption DEF AuthenticateExt, PutToken, Delete
  <2> QED BY <1>2, <2>1 DEF StringsOwned
<1> QED BY <1>3, <1>4, <1>5, <1>6 DEF IInv

LEMMA AuthenticateStep ==
  ASSUME IInv, EventHubAuthCBS_Authenticate PROVE IInv'
<1> USE DEF EventHubAuthCBS_Authenticate
<1>1. CASE AuthenticateAuto
  BY <1>1, AuthenticateAutoStep
<1>2. CASE AuthenticateExt(strings, extSASToken, extSASTokenExp)
           /\ UNCHANGED <<extSASTokenExp, extSASToken>>
  <2>1. /\ extRefresh' \in ExtExpirations \cup {0}
        /\ UNCHANGED <<now, clientVars, authFailureTimeout, granted>>
        /\ extSASToken' = extSASToken /\ extSASTokenExp' = extSASTokenExp
        /\ handling \in {"IDLE", "OK"}
    BY <1>2 DEF IInv, TypeOK
  <2>2. extSASTokenExp # 0
    BY <1>2 DEF IInv, InStep, Statuses, AuthenticateExt
  <2>3. /\ strings \in [live : SUBSET Handles, twice : BOOLEAN]
        /\ strings.live \subseteq {sasTokenHandle, extSASToken}
        /\ extSASToken \in Handles \cup {NULL}
        /\ extSASTokenExp \in ExtExpirations \cup {0}
    BY DEF IInv, TypeOK, StringsOwned
  <2> QED BY <1>2, <2>1, <2>2, <2>3, AuthenticateExtStep
<1> QED BY <1>1, <1>2

LEMMA RefreshAutoStep == ASSUME IInv, RefreshAuto PROVE IInv'
<1> USE DEF clientVars, timeVars, putVars, tokenVars, Statuses, RefreshAuto
<1>1. CASE AuthenticateAuto
  BY <1>1, AuthenticateAutoStep
<1>2. CASE /\ ReturnsError
           /\ cbsStatus' \in {cbsStatus, UpdateEventHubAuthACBSStatus}
           /\ UNCHANGED <<cbOperation, putting, sasTokenCreateTimestamp,
                          sasTokenPutTime, tokenVars>>
  BY <1>2, UpdatedStatus
  DEF IInv, TypeOK, Stamped, InStep, StringsOwned, ReturnsError
<1> QED BY <1>1, <1>2

LEMMA RefreshExtStep == ASSUME IInv, RefreshExt PROVE IInv'
<1> USE DEF RefreshExt
<1>1. CASE /\ ReturnsError
           /\ UNCHANGED <<sasTokenCreateTimestamp, sasTokenPutTime, putVars,
                          tokenVars>>
  BY <1>1 DEF IInv, TypeOK, Stamped, InStep, StringsOwned, ReturnsError,
              clientVars, timeVars, putVars, tokenVars, Statuses
<1>2. ASSUME NEW h \in Handles \ strings.live,
             extSASToken' = h,
             extSASTokenExp' = extRefresh,
             AuthenticateExt(Delete(Add(strings, h), extSASToken), h, extRefresh)
      PROVE  IInv'
  <2> DEFINE m == Delete(Add(strings, h), extSASToken)
  <2>1. m \in [live : SUBSET Handles, twice : BOOLEAN]
    BY DEF IInv, TypeOK, Add, Delete
  <2>2. m.live \subseteq {sasTokenHandle, h}
    BY StringAssumption DEF IInv, TypeOK, StringsOwned, Add, Delete
  <2>3. extRefresh \in ExtExpirations \cup {0} /\ extRefresh' = 0
    BY DEF IInv, TypeOK
  <2> HIDE DEF m
  <2> QED BY <1>2, <2>1, <2>2, <2>3, AuthenticateExtStep DEF m
<1> QED BY <1>1, <1>2

\* Every step keeps the invariant.
LEMMA NextIInv == IInv /\ [Next]_vars => IInv'
<1> SUFFICES ASSUME IInv, [Next]_vars PROVE IInv'
  OBVIOUS
<1>1. CASE Tick \/ SetClockBack
  BY <1>1, ClockStep
<1>2. CASE RefreshSASTokenAsync
  BY <1>2, SimpleStep
<1>3. CASE EventHubAuthCBS_Create
  BY <1>3, CreateStep
<1>4. CASE EventHubAuthCBS_Destroy
  BY <1>4, DestroyStep
<1>5. CASE Handle
  BY <1>5, GetStatusStep, AuthenticateStep, RefreshAutoStep, RefreshExtStep,
     SimpleStep, DestroyStep DEF Handle
<1>6. CASE \E status \in {"OK", "FAILURE"} : OnCBSPutTokenOperationComplete(status)
  BY <1>6, CompleteStep
<1>7. CASE UNCHANGED vars
  BY <1>7 DEF vars, clientVars, timeVars, putVars, tokenVars, IInv, TypeOK,
              Stamped, InStep, StringsOwned
<1> QED BY <1>1, <1>2, <1>3, <1>4, <1>5, <1>6, <1>7 DEF Next

\* The inductive invariant of the authorization handle and its caller.
THEOREM Inductive == Spec => []IInv
<1>1. Init => IInv
  BY InitIInv
<1>2. IInv /\ [Next]_vars => IInv'
  BY NextIInv
<1> QED BY <1>1, <1>2, PTL DEF Spec

\* Every variable of eventhubauth.c keeps its type.
THEOREM TypeCorrect == Spec => []TypeOK
<1>1. IInv => TypeOK
  BY DEF IInv
<1> QED BY <1>1, Inductive, PTL

\* EventHubAuthCBS_Authenticate, _Refresh and _Destroy lose no token STRING, and
\* delete none twice as long as the tokens are generated.
THEOREM TokensOwned == Spec => []StringsOwned
<1>1. IInv => StringsOwned
  BY DEF IInv
<1> QED BY <1>1, Inductive, PTL

\* One call of EventHubAuthCBS_GetStatus tells the truth about the token that
\* the service holds.
LEMMA StatusIsTrue ==
  ASSUME IInv, credential = "AUTO", EventHubAuthCBS_GetStatus
  PROVE  /\ handling' = "OK" => now + (ExpirationTime - RefreshPeriod) < granted
         /\ handling' = "REFRESH_REQUIRED" => now < granted
<1> DEFINE age == Elapsed(sasTokenCreateTimestamp)
<1>1. CASE ClockFails
  BY <1>1 DEF ClockFails
<1>2. CASE handling' = UpdateEventHubAuthACBSStatus /\ Dated
  <2>1. granted = sasTokenCreateTimestamp + ExpirationTime
    BY <1>2 DEF IInv, Stamped, Dated, EventHubAuthCBS_GetStatus
  <2>2. /\ now \in 0..MaxTime /\ sasTokenCreateTimestamp \in 0..MaxTime
        /\ age \in Nat
        /\ age < ExpirationTime => /\ sasTokenCreateTimestamp <= now
                                  /\ age = now - sasTokenCreateTimestamp
    BY ElapsedIsAge DEF IInv, TypeOK
  <2>3. CASE handling' = "OK"
    <3>1. age < RefreshPeriod
      BY <1>2, <2>2, <2>3, TimeAssumption
      DEF UpdateEventHubAuthACBSStatus, AgedStatus
    <3> QED BY <2>1, <2>2, <2>3, <3>1, TimeAssumption
  <2>4. CASE handling' = "REFRESH_REQUIRED"
    <3>1. age < ExpirationTime
      BY <1>2, <2>2, <2>4, TimeAssumption
      DEF UpdateEventHubAuthACBSStatus, AgedStatus
    <3> QED BY <2>1, <2>2, <2>4, <3>1, TimeAssumption
  <2> QED BY <2>3, <2>4
<1>3. CASE handling' = UpdateEventHubAuthACBSStatus /\ ~Dated
  BY <1>3 DEF UpdateEventHubAuthACBSStatus, Dated
<1> QED BY <1>1, <1>2, <1>3 DEF EventHubAuthCBS_GetStatus

\* A caller that is told OK holds a token not yet due for refresh, one that is
\* told REFRESH_REQUIRED a token that has not expired.
THEOREM FreshTokens == Spec => OnlyFreshTokensUsed
<1>1. IInv /\ [Next]_vars =>
        [credential = "AUTO" /\ EventHubAuthCBS_GetStatus =>
           /\ handling' = "OK" => now + (ExpirationTime - RefreshPeriod) < granted
           /\ handling' = "REFRESH_REQUIRED" => now < granted]_vars
  BY StatusIsTrue
<1> QED BY <1>1, Inductive, PTL DEF Spec, OnlyFreshTokensUsed

\* Steps that TokenAuthorization does not see.
LEMMA AuthorizationStutters ==
  ASSUME UNCHANGED <<credential, cbsStatus, authFailureTimeout, extRefresh>>,
         Told' = Told
  PROVE  UNCHANGED Authorization!vars
BY DEF Authorization!vars, Undated

\* One call of EventHubAuthCBS_GetStatus reports what MayReport allows.
LEMMA GetStatusIsReport ==
  ASSUME IInv, EventHubAuthCBS_GetStatus PROVE Authorization!GetStatus
<1> USE DEF EventHubAuthCBS_GetStatus, timeVars, clientVars
<1>1. /\ handling = "idle" /\ cbsStatus \in Statuses /\ Told = "none"
      /\ cbsStatus \notin {"EXPIRED", "TIMEOUT"}
      /\ credential \in {"AUTO", "EXT"}
  BY StringAssumption DEF IInv, TypeOK, InStep, Told, Statuses
<1>2. Undated \notin {"NONE"} /\ (Undated = "OK" <=> cbsStatus \in {"OK", "REFRESH_REQUIRED"})
      /\ (Undated = "IN_PROGRESS" <=> cbsStatus = "IN_PROGRESS")
      /\ (Undated \notin {"OK", "IN_PROGRESS"} => Undated = cbsStatus)
  BY <1>1 DEF Undated
<1>3. Undated' = Undated /\ Told' \in Authorization!MayReport
  <2>1. CASE ClockFails
    BY <1>1, <1>2, <2>1 DEF ClockFails, Dated, Undated, Told, Authorization!MayReport
  <2>2. CASE cbsStatus' = UpdateEventHubAuthACBSStatus /\ handling' = cbsStatus'
    <3>1. CASE Dated
      <4>1. /\ cbsStatus' \in {cbsStatus, "EXPIRED", "REFRESH_REQUIRED"}
            /\ cbsStatus \in {"OK", "REFRESH_REQUIRED"} /\ credential = "AUTO"
        BY <2>2, <3>1 DEF UpdateEventHubAuthACBSStatus, AgedStatus, Dated
      <4> QED BY <1>1, <1>2, <2>2, <4>1 DEF Undated, Told, Authorization!MayReport
    <3>2. CASE ~Dated /\ cbsStatus = "IN_PROGRESS"
      <4>1. /\ cbsStatus' \in {"IN_PROGRESS", "TIMEOUT"}
            /\ cbsStatus' = "TIMEOUT" => authFailureTimeout > 0
        BY <2>2, <3>2 DEF UpdateEventHubAuthACBSStatus, CheckPutTimeoutStatus
      <4> QED BY <1>1, <1>2, <2>2, <3>2, <4>1 DEF Undated, Told, Authorization!MayReport
    <3>3. CASE ~Dated /\ cbsStatus # "IN_PROGRESS"
      <4>1. cbsStatus' = cbsStatus
        BY <2>2, <3>3 DEF UpdateEventHubAuthACBSStatus
      <4>2. Undated = "OK" => credential = "EXT" /\ cbsStatus = "OK"
        BY <1>1, <1>2, <3>3 DEF Dated, IInv, InStep
      <4> QED BY <1>1, <1>2, <2>2, <3>3, <4>1, <4>2
              DEF Undated, Told, Authorization!MayReport, Statuses
    <3> QED BY <3>1, <3>2, <3>3
  <2> QED BY <2>1, <2>2
<1> QED BY <1>1, <1>2, <1>3 DEF Authorization!GetStatus

\* The two outcomes of EventHubAuthCBS_Authenticate and _Refresh.
LEMMA PutOrError ==
  ASSUME IInv, AuthenticateAuto \/ (\E m, h, exp : AuthenticateExt(m, h, exp))
  PROVE  \/ handling' = "ERROR" /\ cbsStatus' = cbsStatus
         \/ handling' = "connection_dowork" /\ cbsStatus' = "IN_PROGRESS"
BY DEF AuthenticateAuto, AuthenticateExt, PutToken, ReturnsError, putVars

LEMMA HandleIsAuthorizations ==
  ASSUME IInv, Handle, ~EventHubAuthCBS_GetStatus,
         ~(handling \in Failures /\ EventHubAuthCBS_Destroy)
  PROVE  Authorization!Next \/ UNCHANGED Authorization!vars
<1> USE DEF clientVars, timeVars, putVars, Authorization!Next
<1>1. /\ handling \in Statuses => cbsStatus = handling
      /\ handling \in Statuses => Told = handling
      /\ cbsStatus # "NONE" <=> Undated # "NONE"
  BY DEF IInv, InStep, Told, Undated, Statuses
<1>2. CASE EventHubAuthCBS_Authenticate
  <2>1. /\ Told = "IDLE" /\ Undated = "IDLE"
        /\ UNCHANGED <<credential, authFailureTimeout, extRefresh>>
    BY <1>1, <1>2 DEF EventHubAuthCBS_Authenticate, Statuses, Undated
  <2>2. \/ Told' = "ERROR" /\ Undated' = "IDLE"
        \/ Told' = "none" /\ Undated' = "IN_PROGRESS"
    BY <1>1, <1>2, PutOrError DEF EventHubAuthCBS_Authenticate, Statuses, Undated, Told
  <2> QED BY <2>1, <2>2
          DEF Authorization!Put, Authorization!Fail, Authorization!ActsOn
<1>3. CASE RefreshAuto
  <2>1. /\ Told = "REFRESH_REQUIRED" /\ Undated = "OK" /\ cbsStatus = "REFRESH_REQUIRED"
        /\ UNCHANGED <<credential, authFailureTimeout, extRefresh>>
    BY <1>1, <1>3 DEF RefreshAuto, Statuses, Undated
  <2>2. \/ Told' = "ERROR" /\ Undated' = "OK"
        \/ Told' = "none" /\ Undated' = "IN_PROGRESS"
    <3>1. CASE AuthenticateAuto
      BY <2>1, <3>1, PutOrError DEF Undated, Told
    <3>2. CASE /\ ReturnsError
               /\ cbsStatus' \in {cbsStatus, UpdateEventHubAuthACBSStatus}
      BY <2>1, <3>2, UpdatedStatus DEF Undated, Told, ReturnsError
    <3> QED BY <1>3, <3>1, <3>2 DEF RefreshAuto
  <2> QED BY <2>1, <2>2
          DEF Authorization!Put, Authorization!Fail, Authorization!ActsOn
<1>4. CASE RefreshExt
  <2>1. /\ Told = "OK" /\ Undated = "OK" /\ extRefresh # 0 /\ extRefresh' = 0
        /\ UNCHANGED <<credential, authFailureTimeout>>
    BY <1>1, <1>4 DEF RefreshExt, Statuses, Undated
  <2>2. \/ Told' = "ERROR" /\ Undated' = "OK"
        \/ Told' = "none" /\ Undated' = "IN_PROGRESS"
    BY <1>1, <1>4, <2>1, PutOrError DEF RefreshExt, Undated, Told, ReturnsError
  <2> QED BY <2>1, <2>2
          DEF Authorization!Put, Authorization!Fail, Authorization!ActsOn
<1>5. CASE GoOn
  <2>1. /\ Told \in {"IN_PROGRESS", "OK"} /\ Told' = "none" /\ Undated # "NONE"
        /\ Told = "OK" => extRefresh = 0
        /\ UNCHANGED <<credential, cbsStatus, authFailureTimeout, extRefresh>>
    BY <1>1, <1>5 DEF GoOn, Statuses, Told, Undated
  <2> QED BY <2>1 DEF Authorization!GoOn, Authorization!ActsOn, Undated
<1>6. CASE ConnectionDoworkReturns
  BY <1>6, AuthorizationStutters DEF ConnectionDoworkReturns, Told
<1> QED BY <1>2, <1>3, <1>4, <1>5, <1>6 DEF Handle

LEMMA AuthorizationStep ==
  IInv /\ [Next]_vars => [Authorization!Next]_(Authorization!vars)
<1> SUFFICES ASSUME IInv, [Next]_vars
             PROVE  Authorization!Next \/ UNCHANGED Authorization!vars
  OBVIOUS
<1> USE DEF clientVars, timeVars, putVars, Authorization!Next
<1>1. CASE Tick \/ SetClockBack \/ UNCHANGED vars
  BY <1>1, AuthorizationStutters DEF Tick, SetClockBack, vars, Told
<1>2. CASE RefreshSASTokenAsync
  <2>1. extRefresh' # 0
    BY <1>2, TimeAssumption DEF RefreshSASTokenAsync
  <2> QED BY <1>2, <2>1
          DEF RefreshSASTokenAsync, Authorization!RequestRefresh, Undated, Told
<1>3. CASE EventHubAuthCBS_Create
  BY <1>3 DEF EventHubAuthCBS_Create, Authorization!Create, Undated, Told
<1>4. CASE EventHubAuthCBS_Destroy
  <2>1. /\ Told \in Authorization!Failures \cup {"none"}
        /\ Told' = "none" /\ Undated' = "NONE"
        /\ (extRefresh' # 0) \in {FALSE, extRefresh # 0}
        /\ UNCHANGED <<credential, authFailureTimeout>>
    BY <1>4 DEF EventHubAuthCBS_Destroy, Told, Undated, Failures, Authorization!Failures
  <2> QED BY <2>1 DEF Authorization!Destroy
<1>5. CASE Handle
  BY <1>4, <1>5, GetStatusIsReport, HandleIsAuthorizations
<1>6. CASE \E status \in {"OK", "FAILURE"} : OnCBSPutTokenOperationComplete(status)
  <2>1. PICK status \in {"OK", "FAILURE"} : OnCBSPutTokenOperationComplete(status)
    BY <1>6
  <2>2. cbsStatus = "IN_PROGRESS"
    BY <2>1 DEF OnCBSPutTokenOperationComplete, IInv, InStep, Statuses
  <2> QED BY <2>1, <2>2 DEF OnCBSPutTokenOperationComplete, Undated, Told,
                            Authorization!PutCompletes
<1> QED BY <1>1, <1>2, <1>3, <1>4, <1>5, <1>6 DEF Next

\* The authorization handle and its caller implement TokenAuthorization, for all
\* periods, time-outs and clocks: no put, answer or failure is handled out of
\* turn.
THEOREM ImplementsAuthorization == Spec => AuthorizationSpec
<1>1. Init => Authorization!Init
  BY StringAssumption DEF Init, Authorization!Init, Undated, Told
<1> QED BY <1>1, AuthorizationStep, Inductive, PTL
        DEF Spec, AuthorizationSpec, Authorization!Spec
===========================================================================
