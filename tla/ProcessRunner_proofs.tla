---- MODULE ProcessRunner_proofs ----
(***************************************************************************)
(* A run submits at most once, saves only what Obero granted, and tears    *)
(* the session file only when it is killed or not alone: for any number of *)
(* runners, sessions and troubles.                                         *)
(***************************************************************************)
EXTENDS ProcessRunner, FiniteSetTheorems, TLAPS

\* Obero has accepted nothing before the first answer, and nothing that is
\* sent again.
AcceptedOnce ==
  \A r \in Runners :
    /\ accepted[r] \in {0, 1}
    /\ pc[r] \in Steps \ {"report"} => accepted[r] = 0
    /\ pc[r] = "report" /\ answer[r] = "ok" => accepted[r] = 1
    /\ Ended(r, "0") => accepted[r] = 1 \/ answer[r] = "login page"

\* At home without a refusal a browser has a session that was granted.
HomeIsGranted ==
  \A r \in Runners :
    /\ page[r] = "home" => cookies[r] \in granted
    /\ pc[r] \in {"idle", "exited", "open"} => page[r] = "elsewhere"
    /\ pc[r] \in {"save", "write"} => page[r] = "home"

\* While no scheduler has died the client has one runner, which finds the
\* file as it left it.
AloneUntilDeath ==
  deaths = 0 => \A r \in Runners :
    /\ pc[r] # "idle" => owner = r
    /\ pc[r] = "write" => file = "empty"

\* How the file comes to be torn.
TornHasACause ==
  /\ file = "mixed" => deaths > 0
  /\ file = "empty" => kills > 0 \/ \E r \in Runners : pc[r] = "write"

RunnerInv ==
  /\ TypeOK
  /\ AcceptedOnce
  /\ HomeIsGranted
  /\ SavedSessionWasGranted
  /\ AloneUntilDeath
  /\ TornHasACause

----
\* There are more sessions than the browsers and the file can hold.
LEMMA NewSessionIsUnused ==
  NewSession \in Sessions /\ Unused(NewSession)
<1> DEFINE Held == {cookies[r] : r \in Runners}
<1>1. IsFiniteSet(Held) /\ Cardinality(Held) <= Cardinality(Runners)
  <2> DEFINE f == [r \in Runners |-> cookies[r]]
  <2>1. f \in [Runners -> Held] /\ \A h \in Held : \E r \in Runners : f[r] = h
    OBVIOUS
  <2>2. f \in Surjection(Runners, Held)
    BY <2>1 DEF Surjection
  <2> QED BY <2>2, RunnersAssumption, FS_Surjection
<1>2. /\ IsFiniteSet(Held \cup {file})
      /\ Cardinality(Held \cup {file}) <= Cardinality(Held) + 1
      /\ Cardinality(Held) \in Nat
  <2> HIDE DEF Held
  <2>1. Cardinality(Held) \in Nat
    BY <1>1, FS_CardinalityType
  <2>2. /\ IsFiniteSet(Held \cup {file})
        /\ Cardinality(Held \cup {file}) \in {Cardinality(Held), Cardinality(Held) + 1}
    BY <1>1, FS_AddElement
  <2> QED BY <2>1, <2>2
<1>3. Cardinality(Runners) \in Nat /\ Cardinality(Sessions) \in Nat
  BY RunnersAssumption, SessionsAssumption, FS_CardinalityType
<1>4. ~(Sessions \subseteq Held \cup {file})
  <2> SUFFICES ASSUME Sessions \subseteq Held \cup {file} PROVE FALSE
    OBVIOUS
  <2>1. Cardinality(Sessions) <= Cardinality(Held \cup {file})
    BY <1>2, FS_Subset
  <2>2. Cardinality(Held \cup {file}) \in Nat
    BY <1>2, FS_CardinalityType
  <2>3. Cardinality(Sessions) >= Cardinality(Runners) + 2
    BY SessionsAssumption
  <2> HIDE DEF Held
  <2> QED BY <1>1, <1>2, <1>3, <2>1, <2>2, <2>3
<1>5. PICK s \in Sessions : s \notin Held \cup {file}
  BY <1>4
<1>6. Unused(s)
  BY <1>5 DEF Unused
<1> QED BY <1>6 DEF NewSession

\* The values of the file that are no session.
LEMMA NoSessions == "absent" \notin Sessions /\ "empty" \notin Sessions
                    /\ "mixed" \notin Sessions /\ None \notin Sessions
BY SessionsAssumption

\* A count below its bound may be raised.
LEMMA OneMore ==
  ASSUME NEW m \in Nat, NEW n \in 0..m, n < m
  PROVE  n + 1 \in 0..m
OBVIOUS

LEMMA Counted ==
  ASSUME TypeOK
  PROVE  /\ MaxTroubles \in Nat /\ MaxKills \in Nat /\ MaxDeaths \in Nat /\ MaxExpiries \in Nat
         /\ troubles \in 0..MaxTroubles /\ kills \in 0..MaxKills
         /\ deaths \in 0..MaxDeaths /\ expiries \in 0..MaxExpiries
BY BoundsAssumption DEF TypeOK

\* A runner that ends keeps the types.
LEMMA ExitTypes ==
  ASSUME TypeOK, NEW r \in Runners, NEW code \in {"0", "1", "killed"}, Exit(r, code)
  PROVE  /\ pc' \in [Runners -> Steps \cup {"idle", "exited"}]
         /\ page' \in [Runners -> {"elsewhere", "home", "refused"}]
         /\ cookies' \in [Runners -> Sessions \cup {None}]
         /\ pair' \in [Runners -> BOOLEAN]
         /\ rc' \in [Runners -> {"none", "0", "1", "killed"}]
<1>1. /\ pc' = [pc EXCEPT ![r] = "exited"] /\ rc' = [rc EXCEPT ![r] = code]
      /\ page' = [page EXCEPT ![r] = "elsewhere"] /\ cookies' = [cookies EXCEPT ![r] = None]
      /\ pair' = [pair EXCEPT ![r] = FALSE]
  BY DEF Exit, Goto
<1>2. pair' \in [Runners -> BOOLEAN]
  BY <1>1 DEF TypeOK
<1> QED BY <1>1, <1>2 DEF TypeOK

\* So does one that goes on.
LEMMA GotoTypes ==
  ASSUME TypeOK, NEW r \in Runners, NEW step \in Steps, Goto(r, step)
  PROVE  pc' \in [Runners -> Steps \cup {"idle", "exited"}]
BY DEF TypeOK, Goto

LEMMA TroubleTypes ==
  ASSUME TypeOK, Trouble
  PROVE  troubles' \in 0..MaxTroubles /\ UNCHANGED <<kills, deaths, expiries>>
BY Counted, OneMore DEF Trouble

LEMMA InitTypes == Init => TypeOK
<1> SUFFICES ASSUME Init PROVE TypeOK
  OBVIOUS
<1>1. force \in BOOLEAN
  BY DEF Init
<1>2. /\ troubles \in 0..MaxTroubles /\ kills \in 0..MaxKills
      /\ deaths \in 0..MaxDeaths /\ expiries \in 0..MaxExpiries
  BY BoundsAssumption DEF Init
<1>3. pair \in [Runners -> BOOLEAN]
  BY DEF Init
<1>4. pc \in [Runners -> Steps \cup {"idle", "exited"}] /\ accepted \in [Runners -> 0..2]
  BY DEF Init
<1> QED BY <1>1, <1>2, <1>3, <1>4 DEF Init, TypeOK

\* The types are preserved by the scheduler and by what goes wrong ...
LEMMA OutsideTypes ==
  ASSUME TypeOK, NEW r \in Runners,
         \/ Launch(r) \/ Reap(r) \/ Kill(r) \/ SchedulerDies \/ GivesUp(r) \/ PipeBreaks(r)
         \/ \E s \in Sessions : Expire(s)
  PROVE  TypeOK'
<1>1. CASE Launch(r)
  <2>1. pc' \in [Runners -> Steps \cup {"idle", "exited"}]
    BY <1>1, GotoTypes DEF Launch, Steps
  <2>2. /\ owner' \in Runners \cup {None} /\ rc' \in [Runners -> {"none", "0", "1", "killed"}]
        /\ answer' \in [Runners -> {"none", "ok", "login page", "antiforgery", "error"}]
    BY <1>1 DEF Launch, TypeOK
  <2>4. accepted' \in [Runners -> 0..2]
    <3>1. accepted \in [Runners -> 0..2] /\ accepted' = [accepted EXCEPT ![r] = 0]
      BY <1>1 DEF Launch, TypeOK
    <3> QED BY <3>1
  <2>3. UNCHANGED <<force, page, cookies, pair, file, live, granted, troubles, kills, deaths,
                    expiries>>
    BY <1>1 DEF Launch, browser, bounds
  <2> QED BY <2>1, <2>2, <2>3, <2>4 DEF TypeOK
<1>2. CASE Reap(r)
  <2>1. pc' \in [Runners -> Steps \cup {"idle", "exited"}] /\ owner' \in Runners \cup {None}
    BY <1>2 DEF Reap, Goto, TypeOK
  <2>2. UNCHANGED <<force, page, cookies, pair, answer, rc, file, live, granted, accepted,
                    troubles, kills, deaths, expiries>>
    BY <1>2 DEF Reap, browser, obero, bounds
  <2> QED BY <2>1, <2>2 DEF TypeOK
<1>3. CASE Kill(r)
  <2>1. kills' \in 0..MaxKills
    BY <1>3, Counted, OneMore DEF Kill
  <2> QED BY <1>3, <2>1, ExitTypes DEF Kill, TypeOK, obero
<1>4. CASE SchedulerDies
  <2>1. deaths' \in 0..MaxDeaths
    BY <1>4, Counted, OneMore DEF SchedulerDies
  <2> QED BY <1>4, <2>1 DEF SchedulerDies, TypeOK, browser, obero
<1>5. CASE GivesUp(r)
  BY <1>5, ExitTypes, TroubleTypes DEF GivesUp, TypeOK, obero
<1>6. CASE PipeBreaks(r)
  BY <1>6, ExitTypes DEF PipeBreaks, TypeOK, obero, bounds
<1>7. ASSUME NEW s \in Sessions, Expire(s) PROVE TypeOK'
  <2>1. expiries' \in 0..MaxExpiries
    BY <1>7, Counted, OneMore DEF Expire
  <2> QED BY <1>7, <2>1 DEF Expire, TypeOK, browser
<1> QED BY <1>1, <1>2, <1>3, <1>4, <1>5, <1>6, <1>7

\* ... by the login ...
LEMMA LoginTypes ==
  ASSUME TypeOK, NEW r \in Runners,
         \/ OpenContext(r) \/ CheckSaved(r) \/ OpenLogin(r) \/ FollowLink(r)
         \/ SubmitCredentials(r) \/ Authorise(r) \/ AnnounceWait(r) \/ AwaitHome(r)
  PROVE  TypeOK'
<1>1. CASE OpenContext(r)
  <2>0. UNCHANGED <<force, owner, answer, file, live, granted, accepted, troubles, kills,
                    deaths, expiries>>
    BY <1>1 DEF OpenContext, obero, bounds
  <2>1. CASE /\ file \in Sessions /\ Goto(r, "check")
             /\ cookies' = [cookies EXCEPT ![r] = file] /\ UNCHANGED <<page, pair, rc>>
    <3>1. cookies' \in [Runners -> Sessions \cup {None}]
      BY <2>1 DEF TypeOK
    <3> QED BY <2>0, <2>1, <3>1, GotoTypes DEF TypeOK, Steps
  <2>2. CASE Exit(r, "1")
    BY <2>0, <2>2, ExitTypes DEF TypeOK
  <2>3. CASE Goto(r, "check") /\ UNCHANGED <<browser, rc>>
    BY <2>0, <2>3, GotoTypes DEF TypeOK, Steps, browser
  <2> QED BY <1>1, <2>1, <2>2, <2>3 DEF OpenContext
<1>2. CASE CheckSaved(r)
  <2>1. /\ Goto(r, "login")
        /\ UNCHANGED <<force, owner, cookies, pair, answer, rc, file, obero, bounds>>
    BY <1>2 DEF CheckSaved
  <2>2. page' \in [Runners -> {"elsewhere", "home", "refused"}]
    BY <1>2 DEF CheckSaved, TypeOK
  <2> QED BY <2>1, <2>2, GotoTypes DEF TypeOK, Steps, obero, bounds
<1>3. CASE OpenLogin(r)
  <2>1. /\ Goto(r, "wait") \/ Goto(r, "link")
        /\ UNCHANGED <<force, owner, cookies, pair, answer, rc, file, obero, bounds>>
    BY <1>3 DEF OpenLogin
  <2>2. page' \in [Runners -> {"elsewhere", "home", "refused"}]
    BY <1>3 DEF OpenLogin, TypeOK
  <2> QED BY <2>1, <2>2, GotoTypes DEF TypeOK, Steps, obero, bounds
<1>4. CASE FollowLink(r) \/ SubmitCredentials(r) \/ AnnounceWait(r)
  <2>1. /\ Goto(r, "credentials") \/ Goto(r, "authorise") \/ Goto(r, "url")
        /\ UNCHANGED <<force, owner, browser, answer, rc, file, obero, bounds>>
    BY <1>4 DEF FollowLink, SubmitCredentials, AnnounceWait
  <2> QED BY <2>1, GotoTypes DEF TypeOK, Steps, browser, obero, bounds
<1>5. CASE Authorise(r)
  <2>1. /\ Goto(r, "wait") /\ cookies' = [cookies EXCEPT ![r] = NewSession]
        /\ UNCHANGED <<force, owner, pair, answer, rc, file, accepted>>
        /\ \/ /\ live' = live \cup {NewSession} /\ granted' = granted \cup {NewSession}
              /\ UNCHANGED bounds
           \/ live' = live \ {NewSession} /\ granted' = granted \ {NewSession} /\ Trouble
    BY <1>5 DEF Authorise
  <2>2. page' \in [Runners -> {"elsewhere", "home", "refused"}]
    BY <1>5 DEF Authorise, TypeOK
  <2>3. cookies' \in [Runners -> Sessions \cup {None}]
    BY <2>1, NewSessionIsUnused DEF TypeOK
  <2>4. live' \subseteq granted' /\ granted' \subseteq Sessions
    BY <2>1, NewSessionIsUnused DEF TypeOK
  <2>5. /\ troubles' \in 0..MaxTroubles /\ kills' \in 0..MaxKills
        /\ deaths' \in 0..MaxDeaths /\ expiries' \in 0..MaxExpiries
    BY <2>1, TroubleTypes, Counted DEF bounds
  <2> QED BY <2>1, <2>2, <2>3, <2>4, <2>5, GotoTypes DEF TypeOK, Steps
<1>6. CASE AwaitHome(r)
  <2>1. /\ (Goto(r, "save") /\ UNCHANGED <<browser, rc>>) \/ Exit(r, "1")
        /\ UNCHANGED <<force, owner, answer, file, obero, bounds>>
    BY <1>6 DEF AwaitHome
  <2> QED BY <2>1, GotoTypes, ExitTypes DEF TypeOK, Steps, browser, obero, bounds
<1> QED BY <1>1, <1>2, <1>3, <1>4, <1>5, <1>6

LEMMA ZeroPlus ==
  ASSUME NEW n, NEW m \in {0, 1}, n = 0
  PROVE  n + m = m /\ m \in 0..2
<1>1. CASE m = 0
  BY <1>1
<1>2. CASE m = 1
  BY <1>2
<1> QED BY <1>1, <1>2

\* Where an answer leads, and what it counts for.
LEMMA AnsweredFacts ==
  ASSUME TypeOK, NEW r \in Runners, NEW got \in {"ok", "login page", "antiforgery", "error"},
         NEW started \in {0, 1}, accepted[r] = 0, Answered(r, got, started)
  PROVE  /\ \/ Goto(r, "report")
            \/ Goto(r, "repost") /\ got = "antiforgery"
         /\ answer' = [answer EXCEPT ![r] = got]
         /\ answer' \in [Runners -> {"none", "ok", "login page", "antiforgery", "error"}]
         /\ accepted' = [accepted EXCEPT ![r] = started]
         /\ accepted' \in [Runners -> 0..2]
         /\ UNCHANGED <<page, cookies, pair, rc>>
<1>1. answer' = [answer EXCEPT ![r] = got] /\ UNCHANGED <<page, cookies, pair, rc>>
  BY DEF Answered, browser
<1>2. accepted' = [accepted EXCEPT ![r] = started] /\ accepted \in [Runners -> 0..2]
  <2>1. accepted[r] + started = started
    BY ZeroPlus
  <2>2. accepted' = [accepted EXCEPT ![r] = accepted[r] + started]
    BY DEF Answered
  <2> QED BY <2>1, <2>2 DEF TypeOK
<1>3. accepted' \in [Runners -> 0..2]
  <2>1. started \in 0..2
    BY ZeroPlus
  <2> QED BY <1>2, <2>1
<1>4. CASE Retries(r, got)
  BY <1>1, <1>2, <1>3, <1>4 DEF Answered, Retries, TypeOK
<1>5. CASE ~Retries(r, got)
  <2>1. Goto(r, "report")
    BY <1>5 DEF Answered
  <2> QED BY <1>1, <1>2, <1>3, <2>1 DEF TypeOK
<1> QED BY <1>4, <1>5

\* What a submission does.
LEMMA SubmitFacts ==
  ASSUME TypeOK, AcceptedOnce, NEW r \in Runners, Submit(r)
  PROVE  /\ UNCHANGED <<force, owner, file, live, granted, kills, deaths, expiries>>
         /\ pc[r] \in {"post", "repost"} /\ accepted[r] = 0
         /\ UNCHANGED troubles \/ Trouble
         /\ \/ Exit(r, "1") /\ accepted' = [accepted EXCEPT ![r] = 1] /\ UNCHANGED answer
            \/ \E got \in {"ok", "login page", "antiforgery", "error"}, started \in {0, 1} :
                 /\ Answered(r, got, started)
                 /\ got = "ok" => started = 1
                 /\ got = "antiforgery" => started = 0
<1>1. pc[r] \in {"post", "repost"} /\ accepted[r] = 0
  BY DEF Submit, AcceptedOnce, Steps
<1>2. accepted[r] + 1 = 1
  BY <1>1
<1> QED BY <1>1, <1>2 DEF Submit, Trouble, bounds

\* ... by the saving of the session and the submission.
LEMMA SubmitTypes ==
  ASSUME TypeOK, AcceptedOnce, HomeIsGranted, NEW r \in Runners,
         \/ Truncate(r) \/ Write(r) \/ LaunchProcess(r) \/ FindToken(r) \/ Submit(r) \/ Report(r)
  PROVE  TypeOK'
<1>1. CASE Truncate(r)
  BY <1>1, GotoTypes DEF Truncate, TypeOK, Steps, browser, obero, bounds
<1>2. CASE Write(r)
  <2>1. file' \in Sessions \cup {"absent", "empty", "mixed"}
    BY <1>2 DEF Write, HomeIsGranted, TypeOK
  <2> QED BY <1>2, <2>1, GotoTypes DEF Write, TypeOK, Steps, browser, obero, bounds
<1>3. CASE LaunchProcess(r)
  <2>1. /\ (Goto(r, "token") /\ UNCHANGED <<browser, rc>>) \/ Exit(r, "1")
        /\ UNCHANGED <<force, owner, answer, file, obero, bounds>>
    BY <1>3 DEF LaunchProcess
  <2> QED BY <2>1, GotoTypes, ExitTypes DEF TypeOK, Steps, browser, obero, bounds
<1>4. CASE FindToken(r)
  <2>1. /\ Goto(r, "post")
        /\ UNCHANGED <<force, owner, page, cookies, answer, rc, file, obero, bounds>>
    BY <1>4 DEF FindToken
  <2>2. pair' \in [Runners -> BOOLEAN]
    BY <1>4 DEF FindToken, TypeOK
  <2> QED BY <2>1, <2>2, GotoTypes DEF TypeOK, Steps, obero, bounds
<1>5. CASE Submit(r)
  <2>1. /\ troubles' \in 0..MaxTroubles /\ kills' \in 0..MaxKills
        /\ deaths' \in 0..MaxDeaths /\ expiries' \in 0..MaxExpiries
        /\ UNCHANGED <<force, owner, file, live, granted>>
    BY <1>5, SubmitFacts, TroubleTypes, Counted
  <2>2. CASE Exit(r, "1") /\ accepted' = [accepted EXCEPT ![r] = 1] /\ UNCHANGED answer
    <3>1. accepted' \in [Runners -> 0..2]
      <4>1. accepted \in [Runners -> 0..2]
        BY DEF TypeOK
      <4> QED BY <2>2, <4>1
    <3> QED BY <2>1, <2>2, <3>1, ExitTypes DEF TypeOK
  <2>3. ASSUME NEW got \in {"ok", "login page", "antiforgery", "error"}, NEW started \in {0, 1},
               Answered(r, got, started)
        PROVE  TypeOK'
    <3>1. /\ Goto(r, "report") \/ Goto(r, "repost")
          /\ answer' \in [Runners -> {"none", "ok", "login page", "antiforgery", "error"}]
          /\ accepted' \in [Runners -> 0..2]
          /\ UNCHANGED <<page, cookies, pair, rc>>
      BY <1>5, <2>3, SubmitFacts, AnsweredFacts
    <3> QED BY <2>1, <3>1, GotoTypes DEF TypeOK, Steps
  <2> QED BY <1>5, <2>2, <2>3, SubmitFacts
<1>6. CASE Report(r)
  <2>1. /\ Exit(r, "0") \/ Exit(r, "1")
        /\ UNCHANGED <<force, owner, answer, file, obero, bounds>>
    BY <1>6 DEF Report
  <2> QED BY <2>1, ExitTypes DEF TypeOK, obero, bounds
<1> QED BY <1>1, <1>2, <1>3, <1>4, <1>5, <1>6

LEMMA TypeStep ==
  ASSUME TypeOK, AcceptedOnce, HomeIsGranted, [Next]_vars
  PROVE  TypeOK'
<1>1. CASE UNCHANGED vars
  BY <1>1 DEF TypeOK, vars
<1>2. CASE Next
  BY <1>2, RunnersAssumption, OutsideTypes, LoginTypes, SubmitTypes DEF Next, Run
<1> QED BY <1>1, <1>2

----
\* What a step of a runner leaves alone of the others.
LEMMA ExitFacts ==
  ASSUME TypeOK, NEW r \in Runners, NEW code, Exit(r, code)
  PROVE  /\ pc'[r] = "exited" /\ rc'[r] = code /\ page'[r] = "elsewhere" /\ cookies'[r] = None
         /\ \A q \in Runners : q # r =>
              pc'[q] = pc[q] /\ rc'[q] = rc[q] /\ page'[q] = page[q] /\ cookies'[q] = cookies[q]
BY DEF TypeOK, Exit, Goto

LEMMA GotoFacts ==
  ASSUME TypeOK, NEW r \in Runners, NEW step, Goto(r, step)
  PROVE  pc'[r] = step /\ \A q \in Runners : q # r => pc'[q] = pc[q]
BY DEF TypeOK, Goto

\* Of the runner r that moves, what the count of submissions depends on.
CountStep(r) ==
  /\ \A q \in Runners : q # r =>
       /\ pc'[q] = pc[q] /\ rc'[q] = rc[q]
       /\ accepted'[q] = accepted[q] /\ answer'[q] = answer[q]
  /\ accepted'[r] \in {0, 1}
  /\ \/ pc'[r] \in Steps \ {"report"} /\ accepted'[r] = 0
     \/ pc'[r] = "idle"
     \/ pc'[r] = "exited" /\ rc'[r] # "0"
     \/ pc'[r] = "exited" /\ (accepted'[r] = 1 \/ answer'[r] = "login page")
     \/ pc'[r] = "report" /\ (answer'[r] = "ok" => accepted'[r] = 1)

LEMMA CountStepKeeps ==
  ASSUME AcceptedOnce, NEW r \in Runners, CountStep(r)
  PROVE  AcceptedOnce'
<1> SUFFICES ASSUME NEW q \in Runners
             PROVE  /\ accepted'[q] \in {0, 1}
                    /\ pc'[q] \in Steps \ {"report"} => accepted'[q] = 0
                    /\ pc'[q] = "report" /\ answer'[q] = "ok" => accepted'[q] = 1
                    /\ pc'[q] = "exited" /\ rc'[q] = "0" =>
                         accepted'[q] = 1 \/ answer'[q] = "login page"
  BY DEF AcceptedOnce, Ended
<1>1. CASE q = r
  BY <1>1 DEF CountStep, Steps
<1>2. CASE q # r
  BY <1>2 DEF CountStep, AcceptedOnce, Ended
<1> QED BY <1>1, <1>2

\* A runner that goes from step to step, or fails, has submitted nothing.
LEMMA OtherCounts ==
  ASSUME TypeOK, AcceptedOnce, NEW r \in Runners, UNCHANGED <<accepted, answer>>,
         \/ Exit(r, "1") \/ Exit(r, "killed")
         \/ /\ pc[r] \in Steps \ {"report"} /\ UNCHANGED rc
            /\ \E step \in Steps \ {"report"} : Goto(r, step)
  PROVE  CountStep(r)
<1>1. accepted[r] \in {0, 1} /\ (pc[r] \in Steps \ {"report"} => accepted[r] = 0)
  BY DEF AcceptedOnce
<1>2. CASE Exit(r, "1") \/ Exit(r, "killed")
  <2>1. /\ pc'[r] = "exited" /\ rc'[r] \in {"1", "killed"}
        /\ \A q \in Runners : q # r => pc'[q] = pc[q] /\ rc'[q] = rc[q]
    BY <1>2, ExitFacts
  <2> QED BY <1>1, <2>1 DEF CountStep
<1>3. ASSUME NEW step \in Steps \ {"report"}, Goto(r, step), UNCHANGED rc,
             pc[r] \in Steps \ {"report"}
      PROVE  CountStep(r)
  BY <1>1, <1>3, GotoFacts DEF CountStep
<1> QED BY <1>2, <1>3

LEMMA SubmitCounts ==
  ASSUME TypeOK, AcceptedOnce, NEW r \in Runners, Submit(r)
  PROVE  CountStep(r)
<1>1. accepted[r] = 0 /\ accepted \in [Runners -> 0..2]
      /\ answer \in [Runners -> {"none", "ok", "login page", "antiforgery", "error"}]
  BY SubmitFacts DEF TypeOK
<1>2. CASE Exit(r, "1") /\ accepted' = [accepted EXCEPT ![r] = 1] /\ UNCHANGED answer
  BY <1>1, <1>2, ExitFacts DEF CountStep
<1>3. ASSUME NEW got \in {"ok", "login page", "antiforgery", "error"}, NEW started \in {0, 1},
             Answered(r, got, started), got = "ok" => started = 1,
             got = "antiforgery" => started = 0
      PROVE  CountStep(r)
  <2>1. /\ Goto(r, "report") \/ (Goto(r, "repost") /\ got = "antiforgery")
        /\ answer' = [answer EXCEPT ![r] = got] /\ accepted' = [accepted EXCEPT ![r] = started]
        /\ UNCHANGED rc
    BY <1>1, <1>3, AnsweredFacts
  <2>2. /\ answer'[r] = got /\ accepted'[r] = started
        /\ \A q \in Runners : q # r => answer'[q] = answer[q] /\ accepted'[q] = accepted[q]
    BY <1>1, <2>1
  <2> QED BY <1>3, <2>1, <2>2, GotoFacts DEF CountStep, Steps
<1> QED BY <1>2, <1>3, SubmitFacts

LEMMA ReportCounts ==
  ASSUME TypeOK, AcceptedOnce, NEW r \in Runners, Report(r)
  PROVE  CountStep(r)
<1>1. /\ pc[r] = "report" /\ UNCHANGED <<answer, accepted>>
      /\ \/ Exit(r, "0") /\ answer[r] \in {"ok", "login page"}
         \/ Exit(r, "1")
  BY DEF Report, IsOk, obero
<1>2. accepted[r] \in {0, 1} /\ (answer[r] = "ok" => accepted[r] = 1)
  BY <1>1 DEF AcceptedOnce
<1>3. CASE Exit(r, "0") /\ answer[r] \in {"ok", "login page"}
  <2>1. /\ pc'[r] = "exited"
        /\ \A q \in Runners : q # r => pc'[q] = pc[q] /\ rc'[q] = rc[q]
    BY <1>3, ExitFacts
  <2> QED BY <1>1, <1>2, <1>3, <2>1 DEF CountStep
<1> QED BY <1>1, <1>3, OtherCounts

\* The submissions of every runner are counted right.
LEMMA AcceptedStep ==
  ASSUME TypeOK, AcceptedOnce, [Next]_vars
  PROVE  AcceptedOnce'
<1>1. ASSUME NEW r \in Runners, Launch(r) PROVE AcceptedOnce'
  <2>1. /\ Goto(r, "open") /\ answer' = [answer EXCEPT ![r] = "none"]
        /\ rc' = [rc EXCEPT ![r] = "none"] /\ accepted' = [accepted EXCEPT ![r] = 0]
    BY <1>1 DEF Launch
  <2>2. /\ accepted'[r] = 0
        /\ \A q \in Runners : q # r =>
             rc'[q] = rc[q] /\ accepted'[q] = accepted[q] /\ answer'[q] = answer[q]
    BY <2>1 DEF TypeOK
  <2>3. pc'[r] = "open" /\ \A q \in Runners : q # r => pc'[q] = pc[q]
    BY <2>1, GotoFacts
  <2>4. CountStep(r)
    BY <2>2, <2>3 DEF CountStep, Steps
  <2> QED BY <2>4, CountStepKeeps
<1>2. ASSUME NEW r \in Runners, Reap(r) PROVE AcceptedOnce'
  <2>1. Goto(r, "idle") /\ UNCHANGED <<answer, rc, accepted>>
    BY <1>2 DEF Reap, obero
  <2>2. accepted[r] \in {0, 1}
    BY DEF AcceptedOnce
  <2>3. CountStep(r)
    BY <2>1, <2>2, GotoFacts DEF CountStep
  <2> QED BY <2>3, CountStepKeeps
<1>3. ASSUME NEW r \in Runners, Submit(r) \/ Report(r) PROVE AcceptedOnce'
  BY <1>3, SubmitCounts, ReportCounts, CountStepKeeps
<1>4. ASSUME NEW r \in Runners, Kill(r) \/ GivesUp(r) \/ PipeBreaks(r) PROVE AcceptedOnce'
  <2>1. (Exit(r, "1") \/ Exit(r, "killed")) /\ UNCHANGED <<answer, accepted>>
    BY <1>4 DEF Kill, GivesUp, PipeBreaks, obero
  <2> QED BY <2>1, OtherCounts, CountStepKeeps
<1>5. ASSUME NEW r \in Runners,
             \/ OpenContext(r) \/ CheckSaved(r) \/ OpenLogin(r) \/ FollowLink(r)
             \/ SubmitCredentials(r) \/ Authorise(r) \/ AnnounceWait(r) \/ AwaitHome(r)
             \/ Truncate(r) \/ Write(r) \/ LaunchProcess(r) \/ FindToken(r)
      PROVE  AcceptedOnce'
  <2>1. UNCHANGED <<answer, accepted>>
    BY <1>5 DEF OpenContext, CheckSaved, OpenLogin, FollowLink, SubmitCredentials, Authorise,
       AnnounceWait, AwaitHome, Truncate, Write, LaunchProcess, FindToken, obero
  <2>2. \/ Exit(r, "1")
        \/ /\ pc[r] \in Steps \ {"report"} /\ UNCHANGED rc
           /\ \E step \in Steps \ {"report"} : Goto(r, step)
    BY <1>5 DEF OpenContext, CheckSaved, OpenLogin, FollowLink, SubmitCredentials, Authorise,
       AnnounceWait, AwaitHome, Truncate, Write, LaunchProcess, FindToken, browser, Steps
  <2> QED BY <2>1, <2>2, OtherCounts, CountStepKeeps
<1>6. CASE SchedulerDies \/ (\E s \in Sessions : Expire(s)) \/ UNCHANGED vars
  <2>1. UNCHANGED <<pc, rc, answer, accepted>>
    BY <1>6 DEF SchedulerDies, Expire, vars, obero
  <2> QED BY <2>1 DEF AcceptedOnce, Ended
<1> QED BY <1>1, <1>2, <1>3, <1>4, <1>5, <1>6 DEF Next, Run

----
\* The runner r moves, and the clauses of HomeIsGranted hold of it afterwards.
HomeStep(r) ==
  /\ \A q \in Runners : q # r =>
       pc'[q] = pc[q] /\ page'[q] = page[q] /\ cookies'[q] = cookies[q]
  /\ \A q \in Runners : cookies[q] \in granted => cookies[q] \in granted'
  /\ page'[r] = "home" => cookies'[r] \in granted'
  /\ pc'[r] \in {"idle", "exited", "open"} => page'[r] = "elsewhere"
  /\ pc'[r] \in {"save", "write"} => page'[r] = "home"

LEMMA HomeStepKeeps ==
  ASSUME HomeIsGranted, NEW r \in Runners, HomeStep(r)
  PROVE  HomeIsGranted'
<1> SUFFICES ASSUME NEW q \in Runners
             PROVE  /\ page'[q] = "home" => cookies'[q] \in granted'
                    /\ pc'[q] \in {"idle", "exited", "open"} => page'[q] = "elsewhere"
                    /\ pc'[q] \in {"save", "write"} => page'[q] = "home"
  BY DEF HomeIsGranted
<1>1. CASE q = r
  BY <1>1 DEF HomeStep
<1>2. CASE q # r
  BY <1>2 DEF HomeStep, HomeIsGranted
<1> QED BY <1>1, <1>2

\* A runner that ends has left every page.
LEMMA ExitHome ==
  ASSUME TypeOK, NEW r \in Runners, NEW code, Exit(r, code), UNCHANGED granted
  PROVE  HomeStep(r)
<1>1. /\ pc'[r] = "exited" /\ page'[r] = "elsewhere"
      /\ \A q \in Runners : q # r =>
           pc'[q] = pc[q] /\ page'[q] = page[q] /\ cookies'[q] = cookies[q]
  BY ExitFacts
<1> QED BY <1>1 DEF HomeStep

\* One that stays where it is keeps what it has.
LEMMA StayHome ==
  ASSUME TypeOK, HomeIsGranted, NEW r \in Runners, NEW step, Goto(r, step),
         UNCHANGED <<page, cookies, granted>>,
         step \in {"idle", "exited", "open"} => page[r] = "elsewhere",
         step \in {"save", "write"} => page[r] = "home"
  PROVE  HomeStep(r)
<1>1. pc'[r] = step /\ \A q \in Runners : q # r => pc'[q] = pc[q]
  BY GotoFacts
<1>2. page[r] = "home" => cookies[r] \in granted
  BY DEF HomeIsGranted
<1> QED BY <1>1, <1>2 DEF HomeStep

\* The login ends at home with a session that was granted, and not otherwise.
LEMMA LoginHome ==
  ASSUME TypeOK, HomeIsGranted, NEW r \in Runners,
         OpenContext(r) \/ CheckSaved(r) \/ OpenLogin(r) \/ Authorise(r) \/ AwaitHome(r)
  PROVE  HomeStep(r)
<1>0. /\ page \in [Runners -> {"elsewhere", "home", "refused"}]
      /\ cookies \in [Runners -> Sessions \cup {None}] /\ live \subseteq granted
      /\ page[r] = "home" => cookies[r] \in granted
  BY DEF TypeOK, HomeIsGranted
<1>1. CASE OpenContext(r)
  <2>1. granted' = granted /\ page[r] = "elsewhere"
    BY <1>1 DEF OpenContext, obero, HomeIsGranted
  <2>2. CASE Exit(r, "1")
    BY <2>1, <2>2, ExitHome
  <2>3. CASE Goto(r, "check") /\ page' = page
             /\ \A q \in Runners : q # r => cookies'[q] = cookies[q]
    <3>1. pc'[r] = "check" /\ \A q \in Runners : q # r => pc'[q] = pc[q]
      BY <2>3, GotoFacts
    <3> QED BY <3>1, <2>1, <2>3 DEF HomeStep
  <2>4. \/ Exit(r, "1")
        \/ Goto(r, "check") /\ page' = page /\ \A q \in Runners : q # r => cookies'[q] = cookies[q]
    BY <1>0, <1>1 DEF OpenContext, browser
  <2> QED BY <2>2, <2>3, <2>4
<1>2. CASE CheckSaved(r) \/ OpenLogin(r)
  <2>1. /\ \E step \in {"login", "wait", "link"} : Goto(r, step)
        /\ UNCHANGED <<cookies, granted>>
    BY <1>2 DEF CheckSaved, OpenLogin, obero
  <2>2. /\ \A q \in Runners : q # r => page'[q] = page[q]
        /\ page'[r] = "home" => cookies[r] \in granted
    BY <1>0, <1>2 DEF CheckSaved, OpenLogin
  <2>3. pc'[r] \in {"login", "wait", "link"} /\ \A q \in Runners : q # r => pc'[q] = pc[q]
    BY <2>1, GotoFacts
  <2> QED BY <2>1, <2>2, <2>3 DEF HomeStep
<1>3. CASE Authorise(r)
  <2>1. pc'[r] = "wait" /\ \A q \in Runners : q # r => pc'[q] = pc[q]
    BY <1>3, GotoFacts DEF Authorise
  <2>2. /\ cookies'[r] = NewSession
        /\ \A q \in Runners : q # r => cookies'[q] = cookies[q] /\ page'[q] = page[q]
        /\ \/ granted' = granted \cup {NewSession}
           \/ granted' = granted \ {NewSession} /\ page'[r] # "home"
    BY <1>0, <1>3 DEF Authorise
  <2>3. \A q \in Runners : cookies[q] # NewSession
    BY NewSessionIsUnused DEF Unused
  <2> QED BY <2>1, <2>2, <2>3 DEF HomeStep
<1>4. CASE AwaitHome(r)
  <2>1. granted' = granted
    BY <1>4 DEF AwaitHome, obero
  <2>2. CASE page[r] = "home" /\ Goto(r, "save") /\ UNCHANGED <<browser, rc>>
    BY <2>1, <2>2, StayHome DEF browser
  <2>3. CASE Exit(r, "1")
    BY <2>1, <2>3, ExitHome
  <2> QED BY <1>4, <2>2, <2>3 DEF AwaitHome
<1> QED BY <1>1, <1>2, <1>3, <1>4

LEMMA HomeStays ==
  ASSUME TypeOK, AcceptedOnce, HomeIsGranted, [Next]_vars
  PROVE  HomeIsGranted'
<1>1. ASSUME NEW r \in Runners, Launch(r) \/ Reap(r) PROVE HomeIsGranted'
  <2>1. /\ Goto(r, "open") \/ Goto(r, "idle")
        /\ page[r] = "elsewhere"
        /\ UNCHANGED <<page, cookies, granted>>
    BY <1>1 DEF Launch, Reap, browser, obero, HomeIsGranted
  <2> QED BY <2>1, StayHome, HomeStepKeeps
<1>2. ASSUME NEW r \in Runners, Kill(r) \/ GivesUp(r) \/ PipeBreaks(r) PROVE HomeIsGranted'
  <2>1. (Exit(r, "1") \/ Exit(r, "killed")) /\ UNCHANGED granted
    BY <1>2 DEF Kill, GivesUp, PipeBreaks, obero
  <2> QED BY <2>1, ExitHome, HomeStepKeeps
<1>3. ASSUME NEW r \in Runners,
             OpenContext(r) \/ CheckSaved(r) \/ OpenLogin(r) \/ Authorise(r) \/ AwaitHome(r)
      PROVE  HomeIsGranted'
  BY <1>3, LoginHome, HomeStepKeeps
<1>4. ASSUME NEW r \in Runners,
             \/ FollowLink(r) \/ SubmitCredentials(r) \/ AnnounceWait(r) \/ Truncate(r)
             \/ Write(r) \/ FindToken(r)
      PROVE  HomeIsGranted'
  <2>1. /\ UNCHANGED <<page, cookies, granted>>
        /\ \/ \E step \in {"credentials", "authorise", "url", "launch", "post"} : Goto(r, step)
           \/ Goto(r, "write") /\ page[r] = "home"
    BY <1>4 DEF FollowLink, SubmitCredentials, AnnounceWait, Truncate, Write, FindToken, browser,
       obero, HomeIsGranted
  <2> QED BY <2>1, StayHome, HomeStepKeeps
<1>5. ASSUME NEW r \in Runners, LaunchProcess(r) \/ Report(r) PROVE HomeIsGranted'
  <2>1. /\ UNCHANGED granted
        /\ Exit(r, "0") \/ Exit(r, "1") \/ (Goto(r, "token") /\ UNCHANGED <<page, cookies>>)
    BY <1>5 DEF LaunchProcess, Report, browser, obero
  <2> QED BY <2>1, ExitHome, StayHome, HomeStepKeeps
<1>6. ASSUME NEW r \in Runners, Submit(r) PROVE HomeIsGranted'
  <2>1. granted' = granted /\ accepted[r] = 0
    BY <1>6, SubmitFacts
  <2>2. CASE Exit(r, "1")
    BY <2>1, <2>2, ExitHome, HomeStepKeeps
  <2>3. ASSUME NEW got \in {"ok", "login page", "antiforgery", "error"}, NEW started \in {0, 1},
               Answered(r, got, started)
        PROVE  HomeIsGranted'
    <3>1. (Goto(r, "report") \/ Goto(r, "repost")) /\ UNCHANGED <<page, cookies>>
      BY <2>1, <2>3, AnsweredFacts
    <3> QED BY <2>1, <3>1, StayHome, HomeStepKeeps
  <2> QED BY <1>6, <2>2, <2>3, SubmitFacts
<1>7. CASE SchedulerDies \/ (\E s \in Sessions : Expire(s)) \/ UNCHANGED vars
  <2>1. UNCHANGED <<pc, page, cookies, granted>>
    BY <1>7 DEF SchedulerDies, Expire, vars, browser, obero
  <2> QED BY <2>1 DEF HomeIsGranted
<1> QED BY <1>1, <1>2, <1>3, <1>4, <1>5, <1>6, <1>7 DEF Next, Run

----
\* Only two steps write the file, and one adds to the granted sessions or
\* takes away the one it has just made up.
LEMMA FileFacts ==
  ASSUME TypeOK, AcceptedOnce, [Next]_vars
  PROVE  /\ file' = file \/ \E r \in Runners : Truncate(r) \/ Write(r)
         /\ granted' = granted \/ (file' = file /\ granted \ {NewSession} \subseteq granted')
<1>1. ASSUME NEW r \in Runners, Submit(r) PROVE file' = file /\ granted' = granted
  BY <1>1, SubmitFacts
<1>2. ASSUME NEW r \in Runners, Authorise(r)
      PROVE  file' = file /\ granted \ {NewSession} \subseteq granted'
  BY <1>2 DEF Authorise
<1>3. ASSUME NEW r \in Runners, Truncate(r) \/ Write(r) PROVE granted' = granted
  BY <1>3 DEF Truncate, Write, obero
<1>4. ASSUME NEW r \in Runners,
             \/ Launch(r) \/ Reap(r) \/ Kill(r) \/ GivesUp(r) \/ PipeBreaks(r)
             \/ OpenContext(r) \/ CheckSaved(r) \/ OpenLogin(r) \/ FollowLink(r)
             \/ SubmitCredentials(r) \/ AnnounceWait(r) \/ AwaitHome(r)
             \/ LaunchProcess(r) \/ FindToken(r) \/ Report(r)
      PROVE  file' = file /\ granted' = granted
  BY <1>4 DEF Launch, Reap, Kill, GivesUp, PipeBreaks, OpenContext, CheckSaved, OpenLogin,
     FollowLink, SubmitCredentials, AnnounceWait, AwaitHome, LaunchProcess, FindToken, Report, obero
<1>5. CASE SchedulerDies \/ (\E s \in Sessions : Expire(s)) \/ UNCHANGED vars
  BY <1>5 DEF SchedulerDies, Expire, vars, obero
<1> QED BY <1>1, <1>2, <1>3, <1>4, <1>5 DEF Next, Run

LEMMA SavedStep ==
  ASSUME TypeOK, AcceptedOnce, HomeIsGranted, SavedSessionWasGranted, [Next]_vars
  PROVE  SavedSessionWasGranted'
<1>1. CASE file' = file /\ granted' = granted
  BY <1>1 DEF SavedSessionWasGranted
<1>2. CASE file' = file /\ granted \ {NewSession} \subseteq granted'
  BY <1>2, NewSessionIsUnused DEF SavedSessionWasGranted, Unused
<1>3. ASSUME NEW r \in Runners, Truncate(r) PROVE SavedSessionWasGranted'
  BY <1>3, NoSessions DEF Truncate, SavedSessionWasGranted
<1>4. ASSUME NEW r \in Runners, Write(r) PROVE SavedSessionWasGranted'
  <2>1. cookies[r] \in granted /\ granted' = granted
    BY <1>4 DEF Write, HomeIsGranted, obero
  <2>2. file' = cookies[r] \/ file' = "mixed"
    BY <1>4 DEF Write
  <2> QED BY <2>1, <2>2, NoSessions DEF SavedSessionWasGranted
<1> QED BY <1>1, <1>2, <1>3, <1>4, FileFacts

----
\* Which runner moves, who then owns it, and what becomes of the counts.
MoveStep(r) ==
  /\ \A q \in Runners : q # r => pc'[q] = pc[q]
  /\ \/ pc[r] = "idle" /\ owner = None /\ owner' = r /\ pc'[r] = "open" /\ UNCHANGED kills
     \/ pc[r] = "exited" /\ owner' = (IF owner = r THEN None ELSE owner) /\ pc'[r] = "idle"
        /\ UNCHANGED kills
     \/ pc[r] \in Steps /\ owner' = owner /\ pc'[r] # "idle"
        /\ \/ kills' > 0 /\ pc'[r] = "exited"
           \/ UNCHANGED kills /\ (pc[r] = "write" => Write(r)) /\ (pc'[r] = "write" => Truncate(r))

LEMMA EveryMove ==
  ASSUME TypeOK, AcceptedOnce, [Next]_vars
  PROVE  \/ UNCHANGED deaths /\ \E r \in Runners : MoveStep(r)
         \/ UNCHANGED <<deaths, pc, owner, file, kills>>
         \/ deaths' > 0 /\ UNCHANGED <<pc, file, kills>>
<1>1. ASSUME NEW r \in Runners, Launch(r) \/ Reap(r)
      PROVE  UNCHANGED deaths /\ MoveStep(r)
  <2>1. \/ Goto(r, "open") /\ Launch(r)
        \/ Goto(r, "idle") /\ Reap(r)
    BY <1>1 DEF Launch, Reap
  <2>2. \/ pc'[r] = "open" /\ Launch(r)
        \/ pc'[r] = "idle" /\ Reap(r)
    BY <2>1, GotoFacts
  <2>3. \A q \in Runners : q # r => pc'[q] = pc[q]
    BY <2>1, GotoFacts
  <2> QED BY <2>2, <2>3 DEF MoveStep, Launch, Reap, bounds
<1>2. ASSUME NEW r \in Runners, Kill(r) PROVE UNCHANGED deaths /\ MoveStep(r)
  <2>1. pc'[r] = "exited" /\ \A q \in Runners : q # r => pc'[q] = pc[q]
    BY <1>2, ExitFacts DEF Kill
  <2>2. pc[r] \in Steps /\ kills' = kills + 1 /\ UNCHANGED <<owner, deaths>>
    BY <1>2 DEF Kill
  <2>3. kills' > 0
    BY <2>2, Counted
  <2> QED BY <2>1, <2>2, <2>3 DEF MoveStep
<1>3. ASSUME NEW r \in Runners,
             \/ GivesUp(r) \/ PipeBreaks(r) \/ Report(r)
             \/ OpenContext(r) \/ LaunchProcess(r) \/ AwaitHome(r)
      PROVE  UNCHANGED deaths /\ MoveStep(r)
  <2>1. /\ UNCHANGED <<deaths, owner, kills>> /\ pc[r] \in Steps \ {"write"}
        /\ \/ Exit(r, "0") \/ Exit(r, "1")
           \/ \E step \in {"check", "token", "save"} : Goto(r, step)
    BY <1>3 DEF GivesUp, PipeBreaks, Report, OpenContext, LaunchProcess, AwaitHome, Trouble,
       AskingSteps, PrintingSteps, Steps, bounds
  <2>2. /\ pc'[r] \in {"exited", "check", "token", "save"}
        /\ \A q \in Runners : q # r => pc'[q] = pc[q]
    BY <2>1, ExitFacts, GotoFacts
  <2> QED BY <2>1, <2>2 DEF MoveStep
<1>4. ASSUME NEW r \in Runners,
             \/ CheckSaved(r) \/ OpenLogin(r) \/ FollowLink(r) \/ SubmitCredentials(r)
             \/ Authorise(r) \/ AnnounceWait(r) \/ FindToken(r)
      PROVE  UNCHANGED deaths /\ MoveStep(r)
  <2>1. /\ UNCHANGED <<deaths, owner, kills>> /\ pc[r] \in Steps \ {"write"}
        /\ \E step \in Steps \ {"write"} : Goto(r, step)
    BY <1>4 DEF CheckSaved, OpenLogin, FollowLink, SubmitCredentials, Authorise, AnnounceWait,
       FindToken, Trouble, Steps, bounds
  <2>2. pc'[r] \in Steps \ {"write"} /\ \A q \in Runners : q # r => pc'[q] = pc[q]
    BY <2>1, GotoFacts
  <2> QED BY <2>1, <2>2 DEF MoveStep, Steps
<1>5. ASSUME NEW r \in Runners, Truncate(r) \/ Write(r)
      PROVE  UNCHANGED deaths /\ MoveStep(r)
  <2>1. /\ UNCHANGED <<deaths, owner, kills>>
        /\ \/ Truncate(r) /\ pc[r] = "save" /\ Goto(r, "write")
           \/ Write(r) /\ pc[r] = "write" /\ Goto(r, "launch")
    BY <1>5 DEF Truncate, Write, bounds
  <2>2. /\ \/ Truncate(r) /\ pc[r] = "save" /\ pc'[r] = "write"
           \/ Write(r) /\ pc[r] = "write" /\ pc'[r] = "launch"
        /\ \A q \in Runners : q # r => pc'[q] = pc[q]
    BY <2>1, GotoFacts
  <2> QED BY <2>1, <2>2 DEF MoveStep, Steps
<1>6. ASSUME NEW r \in Runners, Submit(r) PROVE UNCHANGED deaths /\ MoveStep(r)
  <2>1. UNCHANGED <<deaths, owner, kills>> /\ pc[r] \in {"post", "repost"} /\ accepted[r] = 0
    BY <1>6, SubmitFacts
  <2>2. Exit(r, "1") \/ Goto(r, "report") \/ Goto(r, "repost")
    <3>1. ASSUME NEW got \in {"ok", "login page", "antiforgery", "error"}, NEW started \in {0, 1},
                 Answered(r, got, started)
          PROVE  Goto(r, "report") \/ Goto(r, "repost")
      BY <2>1, <3>1, AnsweredFacts, ZenonT(60)
    <3> QED BY <1>6, <3>1, SubmitFacts, ZenonT(60)
  <2>3. pc'[r] \in {"exited", "report", "repost"} /\ \A q \in Runners : q # r => pc'[q] = pc[q]
    BY <2>2, ExitFacts, GotoFacts
  <2> QED BY <2>1, <2>3 DEF MoveStep, Steps
<1>7. CASE SchedulerDies
  <2>1. deaths' > 0
    BY <1>7, Counted DEF SchedulerDies
  <2> QED BY <1>7, <2>1 DEF SchedulerDies
<1>8. CASE (\E s \in Sessions : Expire(s)) \/ UNCHANGED vars
  BY <1>8 DEF Expire, vars
<1> QED BY <1>1, <1>2, <1>3, <1>4, <1>5, <1>6, <1>7, <1>8 DEF Next, Run

LEMMA AloneStep ==
  ASSUME TypeOK, AcceptedOnce, AloneUntilDeath, [Next]_vars
  PROVE  AloneUntilDeath'
<1> SUFFICES ASSUME deaths' = 0, NEW q \in Runners
             PROVE  /\ pc'[q] # "idle" => owner' = q
                    /\ pc'[q] = "write" => file' = "empty"
  BY DEF AloneUntilDeath
<1>1. CASE UNCHANGED <<deaths, pc, owner, file, kills>>
  BY <1>1 DEF AloneUntilDeath
<1>2. ASSUME UNCHANGED deaths, NEW r \in Runners, MoveStep(r)
      PROVE  /\ pc'[q] # "idle" => owner' = q
             /\ pc'[q] = "write" => file' = "empty"
  <2>1. \A p \in Runners : (pc[p] # "idle" => owner = p) /\ (pc[p] = "write" => file = "empty")
    BY <1>2 DEF AloneUntilDeath
  <2>2. pc'[q] # "idle" => owner' = q
    BY <1>2, <2>1, RunnersAssumption DEF MoveStep, Steps
  <2>3. ASSUME pc'[q] = "write" PROVE file' = "empty"
    <3>1. CASE \E p \in Runners : Truncate(p)
      BY <3>1 DEF Truncate
    <3>2. ASSUME NEW p \in Runners, Write(p) PROVE FALSE
      <4>1. pc[p] = "write" /\ owner' = owner /\ pc'[p] = "launch"
        BY <3>2, GotoFacts DEF Write
      <4>2. owner = p
        BY <2>1, <4>1
      <4> QED BY <2>2, <2>3, <4>1, <4>2
    <3>3. CASE file' = file
      <4>1. CASE q # r
        BY <1>2, <2>1, <2>3, <3>3, <4>1 DEF MoveStep
      <4>2. CASE q = r
        <5>1. Truncate(r) \/ pc[r] = "write"
          BY <1>2, <2>3, <4>2 DEF MoveStep, Steps
        <5> QED BY <5>1, <3>1, <3>3, <4>2, <2>1
      <4> QED BY <4>1, <4>2
    <3> QED BY <3>1, <3>2, <3>3, FileFacts
  <2> QED BY <2>2, <2>3
<1> QED BY <1>1, <1>2, EveryMove

LEMMA TornStep ==
  ASSUME TypeOK, AcceptedOnce, HomeIsGranted, AloneUntilDeath, TornHasACause, [Next]_vars
  PROVE  TornHasACause'
<1>0. /\ kills \in Nat /\ deaths \in Nat
      /\ deaths > 0 => deaths' > 0
      /\ kills > 0 => kills' > 0
  <2>1. kills \in Nat /\ deaths \in Nat
    BY Counted
  <2>2. UNCHANGED kills \/ kills' > 0
    BY EveryMove DEF MoveStep
  <2>3. UNCHANGED deaths \/ deaths' > 0
    BY EveryMove
  <2> QED BY <2>1, <2>2, <2>3
<1>1. CASE file' = file
  <2>1. file' = "mixed" => deaths' > 0
    BY <1>0, <1>1 DEF TornHasACause
  <2>2. ASSUME file = "empty", ~(kills' > 0) PROVE \E r \in Runners : pc'[r] = "write"
    <3>1. PICK q \in Runners : pc[q] = "write"
      BY <1>0, <2>2 DEF TornHasACause
    <3>2. ~Write(q)
      <4>1. "empty" \notin Sessions /\ cookies[q] \in Sessions
        BY <3>1, NoSessions DEF HomeIsGranted, TypeOK
      <4> QED BY <4>1, <1>1, <2>2 DEF Write
    <3>3. CASE \E r \in Runners : MoveStep(r)
      <4>1. PICK r \in Runners : MoveStep(r)
        BY <3>3
      <4>2. q # r
        BY <4>1, <3>1, <3>2, <2>2 DEF MoveStep
      <4> QED BY <4>1, <4>2, <3>1 DEF MoveStep
    <3>4. CASE UNCHANGED pc
      BY <3>1, <3>4
    <3> QED BY <3>3, <3>4, EveryMove
  <2> QED BY <1>1, <2>1, <2>2 DEF TornHasACause
<1>2. ASSUME NEW r \in Runners, Truncate(r) PROVE TornHasACause'
  <2>1. pc'[r] = "write" /\ file' = "empty"
    BY <1>2, GotoFacts DEF Truncate
  <2> QED BY <2>1 DEF TornHasACause
<1>3. ASSUME NEW r \in Runners, Write(r) PROVE TornHasACause'
  <2>1. cookies[r] \in Sessions
    BY <1>3 DEF Write, HomeIsGranted, TypeOK
  <2>2. file' \in Sessions \/ (file' = "mixed" /\ file # "empty")
    BY <1>3, <2>1 DEF Write
  <2>3. file # "empty" => deaths > 0
    BY <1>0, <1>3 DEF AloneUntilDeath, Write
  <2> QED BY <1>0, <2>2, <2>3, NoSessions DEF TornHasACause
<1> QED BY <1>1, <1>2, <1>3, FileFacts

LEMMA InitRunner == Init => RunnerInv
<1> SUFFICES ASSUME Init PROVE RunnerInv
  OBVIOUS
<1>1. /\ owner = None /\ pc = [r \in Runners |-> "idle"] /\ page = [r \in Runners |-> "elsewhere"]
      /\ answer = [r \in Runners |-> "none"] /\ rc = [r \in Runners |-> "none"]
      /\ file = "absent" /\ accepted = [r \in Runners |-> 0]
  BY DEF Init
<1>2. AcceptedOnce /\ HomeIsGranted
  BY <1>1 DEF AcceptedOnce, HomeIsGranted, Ended, Steps
<1>3. SavedSessionWasGranted /\ AloneUntilDeath /\ TornHasACause
  BY <1>1, NoSessions DEF SavedSessionWasGranted, AloneUntilDeath, TornHasACause
<1> QED BY <1>2, <1>3, InitTypes DEF RunnerInv

THEOREM RunnerInvariant == Spec => []RunnerInv
<1>1. RunnerInv /\ [Next]_vars => RunnerInv'
  BY TypeStep, AcceptedStep, HomeStays, SavedStep, AloneStep, TornStep DEF RunnerInv
<1> QED BY <1>1, InitRunner, PTL DEF Spec

----
\* The types of the runners, for any runners, sessions and bounds; there is
\* always a session left for a new login.
THEOREM TypeCorrect == Spec => []TypeOK
<1>1. RunnerInv => TypeOK
  BY DEF RunnerInv
<1> QED BY <1>1, RunnerInvariant, PTL

\* A run starts the process at most once, whichever answers are lost, and
\* exit code 0 means that it did, or that the session expired on the way.
THEOREM OncePerRun == Spec => []SubmittedOnce
<1>1. RunnerInv => SubmittedOnce
  <2> SUFFICES ASSUME RunnerInv, NEW r \in Runners
               PROVE  /\ accepted[r] <= 1
                      /\ Ended(r, "0") => accepted[r] = 1 \/ answer[r] = "login page"
    BY DEF SubmittedOnce
  <2>1. accepted[r] \in {0, 1}
    BY DEF RunnerInv, AcceptedOnce
  <2>2. accepted[r] <= 1
    BY <2>1
  <2> QED BY <2>2 DEF RunnerInv, AcceptedOnce
<1> QED BY <1>1, RunnerInvariant, PTL

\* A refused session is never saved, by any runner in any order.
THEOREM SavedWasGranted == Spec => []SavedSessionWasGranted
<1>1. RunnerInv => SavedSessionWasGranted
  BY DEF RunnerInv
<1> QED BY <1>1, RunnerInvariant, PTL

\* A torn session file is the work of a kill, or of two runners after a
\* scheduler died.
THEOREM TornHasItsCause == Spec => []TornByKillOrOverlap
<1>1. RunnerInv => TornByKillOrOverlap
  BY DEF RunnerInv, TornHasACause, TornByKillOrOverlap, Unreadable
<1> QED BY <1>1, RunnerInvariant, PTL
====
