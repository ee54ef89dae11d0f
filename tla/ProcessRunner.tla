---- MODULE ProcessRunner ----
(***************************************************************************)
(* The runner of one client (obero_process_runner.py): a process that the  *)
(* scheduler starts once per cycle.  It opens a browser with the session   *)
(* saved by the run before, logs in to Obero through Xactly if that one    *)
(* is not accepted any more, saves the session, and submits the ETL        *)
(* process with one POST, or two.                                          *)
(*                                                                         *)
(* The scheduler waits for the runner it started, so a client has one      *)
(* runner, unless the scheduler is killed: its runner goes on, and its     *)
(* next line of output fails because nobody reads the pipe.  Until then it *)
(* shares the session file with the runner of the next scheduler.          *)
(***************************************************************************)
EXTENDS Naturals, FiniteSets

CONSTANTS
  Runners,      \* slots for runner processes of the client
  Sessions,     \* identities of Obero sessions, used again when forgotten
  None,         \* no runner, no session
  MaxTroubles,  \* bound: requests of Obero or Xactly that go wrong
  MaxKills,     \* bound: runners killed at their timeout or at a shutdown
  MaxDeaths,    \* bound: schedulers that die with a runner
  MaxExpiries   \* bound: sessions that Obero lets expire

ASSUME RunnersAssumption ==
  IsFiniteSet(Runners) /\ Runners # {} /\ None \notin Runners

\* One for every browser, one for the file, and a new one.
ASSUME SessionsAssumption ==
  /\ IsFiniteSet(Sessions) /\ Cardinality(Sessions) >= Cardinality(Runners) + 2
  /\ Sessions \cap {None, "absent", "empty", "mixed"} = {}

ASSUME BoundsAssumption ==
  MaxTroubles \in Nat /\ MaxKills \in Nat /\ MaxDeaths \in Nat /\ MaxExpiries \in Nat

VARIABLES
  force,      \* FORCE_LOGIN
  owner,      \* the runner whose output and exit the scheduler waits for
  pc,         \* pc[r]: what r does next
  page,       \* page[r]: where page.url is
  cookies,    \* cookies[r]: the session in the browser context
  pair,       \* pair[r]: there is a ":" in the verification token
  answer,     \* answer[r]: what RunProcess answered
  rc,         \* rc[r]: how r ended
  file,       \* SESSION_FILE: a session, or what is in the way of reading one
  live,       \* sessions that Obero accepts
  granted,    \* sessions that Obero has accepted
  accepted,   \* accepted[r]: submissions of r that Obero has accepted
  troubles, kills, deaths, expiries

browser == <<page, cookies, pair>>
obero   == <<live, granted, accepted>>
bounds  == <<troubles, kills, deaths, expiries>>
vars    == <<force, owner, pc, page, cookies, pair, answer, rc, file, live,
             granted, accepted, troubles, kills, deaths, expiries>>

Steps == {"open", "check", "login", "link", "credentials", "authorise", "wait",
          "url", "save", "write", "launch", "token", "post", "repost", "report"}

TypeOK ==
  /\ force \in BOOLEAN
  /\ owner \in Runners \cup {None}
  /\ pc \in [Runners -> Steps \cup {"idle", "exited"}]
  /\ page \in [Runners -> {"elsewhere", "home", "refused"}]
  /\ cookies \in [Runners -> Sessions \cup {None}]
  /\ pair \in [Runners -> BOOLEAN]
  /\ answer \in [Runners -> {"none", "ok", "login page", "antiforgery", "error"}]
  /\ rc \in [Runners -> {"none", "0", "1", "killed"}]
  /\ file \in Sessions \cup {"absent", "empty", "mixed"}
  /\ live \subseteq granted /\ granted \subseteq Sessions
  /\ accepted \in [Runners -> 0..2]
  /\ troubles \in 0..MaxTroubles /\ kills \in 0..MaxKills
  /\ deaths \in 0..MaxDeaths /\ expiries \in 0..MaxExpiries

Init ==
  /\ force \in BOOLEAN
  /\ owner = None
  /\ pc = [r \in Runners |-> "idle"]
  /\ page = [r \in Runners |-> "elsewhere"]
  /\ cookies = [r \in Runners |-> None]
  /\ pair = [r \in Runners |-> FALSE]
  /\ answer = [r \in Runners |-> "none"]
  /\ rc = [r \in Runners |-> "none"]
  /\ file = "absent" /\ live = {} /\ granted = {}
  /\ accepted = [r \in Runners |-> 0]
  /\ troubles = 0 /\ kills = 0 /\ deaths = 0 /\ expiries = 0

Goto(r, step) == pc' = [pc EXCEPT ![r] = step]

\* is_success_url compares host and path, so it is also true of the home
\* page that Obero shows with a reason for refusing the login.
IsSuccessUrl(r) == page[r] \in {"home", "refused"}

\* The browser is closed with the process, and its cookies with it.
Exit(r, code) ==
  /\ Goto(r, "exited")
  /\ rc' = [rc EXCEPT ![r] = code]
  /\ page' = [page EXCEPT ![r] = "elsewhere"]
  /\ cookies' = [cookies EXCEPT ![r] = None]
  /\ pair' = [pair EXCEPT ![r] = FALSE]

----
(* The scheduler, as far as a runner sees it. *)

\* Mutant: a cycle begins without waiting for the runner of the one before.
LaunchAtOnce(r) ==
  /\ pc[r] = "idle"
  /\ owner' = r
  /\ Goto(r, "open")
  /\ answer' = [answer EXCEPT ![r] = "none"]
  /\ rc' = [rc EXCEPT ![r] = "none"]
  /\ accepted' = [accepted EXCEPT ![r] = 0]
  /\ UNCHANGED <<force, browser, file, live, granted, bounds>>

\* run_client starts the client's runner of a cycle.
Launch(r) ==
  /\ pc[r] = "idle" /\ owner = None
  /\ owner' = r
  /\ Goto(r, "open")
  /\ answer' = [answer EXCEPT ![r] = "none"]
  /\ rc' = [rc EXCEPT ![r] = "none"]
  /\ accepted' = [accepted EXCEPT ![r] = 0]
  /\ UNCHANGED <<force, browser, file, live, granted, bounds>>

\* process.wait() returns; the system reaps a runner without a scheduler.
Reap(r) ==
  /\ pc[r] = "exited"
  /\ Goto(r, "idle")
  /\ owner' = IF owner = r THEN None ELSE owner
  /\ UNCHANGED <<force, browser, answer, rc, file, obero, bounds>>

\* _stop_process, from the timer or from request_shutdown.
Kill(r) ==
  /\ owner = r /\ pc[r] \in Steps
  /\ kills < MaxKills /\ kills' = kills + 1
  /\ Exit(r, "killed")
  /\ UNCHANGED <<force, owner, answer, file, obero, troubles, deaths, expiries>>

SchedulerDies ==
  /\ owner # None
  /\ deaths < MaxDeaths /\ deaths' = deaths + 1
  /\ owner' = None
  /\ UNCHANGED <<force, pc, browser, answer, rc, file, obero, troubles, kills,
                 expiries>>

\* print() raises when nobody reads the pipe any more.  Some steps print only
\* in some of their branches; the runner then ends one step later.
PrintingSteps == Steps \ {"open", "url", "save", "write", "post"}

PipeBreaks(r) ==
  /\ pc[r] \in PrintingSteps /\ owner # r
  /\ Exit(r, "1")
  /\ UNCHANGED <<force, owner, answer, file, obero, bounds>>

CanPrint(r) == owner = r

----
(* What goes wrong outside the runner. *)

Trouble ==
  /\ troubles < MaxTroubles /\ troubles' = troubles + 1
  /\ UNCHANGED <<kills, deaths, expiries>>

Expire(s) ==
  /\ s \in live
  /\ expiries < MaxExpiries /\ expiries' = expiries + 1
  /\ live' = live \ {s}
  /\ UNCHANGED <<force, owner, pc, browser, answer, rc, file, granted, accepted,
                 troubles, kills, deaths>>

AskingSteps == {"open", "check", "login", "link", "credentials", "authorise",
                "url", "save", "launch", "token", "post", "repost"}

\* Every request can fail and every page can lack what is looked for: the
\* runner says so and returns 1, or the exception ends it.
GivesUp(r) ==
  /\ pc[r] \in AskingSteps
  /\ Trouble
  /\ Exit(r, "1")
  /\ UNCHANGED <<force, owner, answer, file, obero>>

----
(* main() *)

\* SESSION_FILE.exists() and not FORCE_LOGIN
HasSaved == file # "absent" /\ ~force

\* new_context(storage_state=...) raises if the file is not JSON.
OpenContext(r) ==
  /\ pc[r] = "open"
  /\ \/ /\ HasSaved /\ file \in Sessions
        /\ Goto(r, "check")
        /\ cookies' = [cookies EXCEPT ![r] = file]
        /\ UNCHANGED <<page, pair, rc>>
     \/ /\ HasSaved /\ file \notin Sessions
        /\ Exit(r, "1")
     \/ /\ ~HasSaved
        /\ Goto(r, "check")
        /\ UNCHANGED <<browser, rc>>
  /\ UNCHANGED <<force, owner, answer, file, obero, bounds>>

\* The saved session is tried.  A timeout after the authenticated page was
\* reached does not matter, an earlier one asks for a fresh login.
CheckSaved(r) ==
  /\ pc[r] = "check"
  /\ \/ /\ HasSaved /\ CanPrint(r)
        /\ \E reached \in {"home", "elsewhere"} :
             /\ reached = "home" => cookies[r] \in live
             /\ page' = [page EXCEPT ![r] = reached]
     \/ ~HasSaved /\ UNCHANGED page
  /\ Goto(r, "login")
  /\ UNCHANGED <<force, owner, cookies, pair, answer, rc, file, obero, bounds>>

\* Mutant: a saved session is trusted without looking where it led.
OpenLoginUnlessSaved(r) ==
  /\ pc[r] = "login"
  /\ \/ HasSaved /\ Goto(r, "wait") /\ UNCHANGED page
     \/ ~HasSaved /\ CanPrint(r) /\ Goto(r, "link") /\ UNCHANGED page
  /\ UNCHANGED <<force, owner, cookies, pair, answer, rc, file, obero, bounds>>

\* The login page lets a session that is still accepted straight through.
OpenLogin(r) ==
  /\ pc[r] = "login"
  /\ \/ /\ IsSuccessUrl(r)
        /\ Goto(r, "wait") /\ UNCHANGED page
     \/ /\ ~IsSuccessUrl(r) /\ CanPrint(r)
        /\ \/ cookies[r] \in live /\ Goto(r, "wait")
              /\ page' = [page EXCEPT ![r] = "home"]
           \/ Goto(r, "link") /\ UNCHANGED page
  /\ UNCHANGED <<force, owner, cookies, pair, answer, rc, file, obero, bounds>>

\* "Login with Xactly" is clicked.
FollowLink(r) ==
  /\ pc[r] = "link" /\ CanPrint(r)
  /\ Goto(r, "credentials")
  /\ UNCHANGED <<force, owner, browser, answer, rc, file, obero, bounds>>

\* complete_xactly_login: the form is filled, submitted and accepted.
SubmitCredentials(r) ==
  /\ pc[r] = "credentials" /\ CanPrint(r)
  /\ Goto(r, "authorise")
  /\ UNCHANGED <<force, owner, browser, answer, rc, file, obero, bounds>>

Unused(s) == s # file /\ \A r \in Runners : cookies[r] # s

NewSession == CHOOSE s \in Sessions : Unused(s)

\* complete_xactly_login, the approval: the tenant redirects by itself or
\* after the click, whose own timeout does not matter.  Obero grants the
\* browser a session, or refuses the user and says so at the home address
\* or at another one.
Authorise(r) ==
  /\ pc[r] = "authorise" /\ CanPrint(r)
  /\ Goto(r, "wait")
  /\ cookies' = [cookies EXCEPT ![r] = NewSession]
  /\ \/ /\ page' = [page EXCEPT ![r] = "home"]
        /\ live' = live \cup {NewSession}
        /\ granted' = granted \cup {NewSession}
        /\ UNCHANGED bounds
     \/ /\ \E there \in {"refused", "elsewhere"} : page' = [page EXCEPT ![r] = there]
        /\ live' = live \ {NewSession}
        /\ granted' = granted \ {NewSession}
        /\ Trouble
  /\ UNCHANGED <<force, owner, pair, answer, rc, file, accepted>>

\* "Waiting for Obero authentication...": the last line before the save.
AnnounceWait(r) ==
  /\ pc[r] = "wait" /\ CanPrint(r)
  /\ Goto(r, "url")
  /\ UNCHANGED <<force, owner, browser, answer, rc, file, obero, bounds>>

\* Mutant: the reason in the address is only looked at after a timeout.
AwaitHomeOnly(r) ==
  /\ pc[r] = "url"
  /\ \/ IsSuccessUrl(r) /\ Goto(r, "save") /\ UNCHANGED <<browser, rc>>
     \/ ~IsSuccessUrl(r) /\ Exit(r, "1")
  /\ UNCHANGED <<force, owner, answer, file, obero, bounds>>

\* wait_for_url, and the check for a refusal in the address it reached.
AwaitHome(r) ==
  /\ pc[r] = "url"
  /\ \/ page[r] = "home" /\ Goto(r, "save") /\ UNCHANGED <<browser, rc>>
     \/ page[r] # "home" /\ Exit(r, "1")
  /\ UNCHANGED <<force, owner, answer, file, obero, bounds>>

\* context.storage_state(path=...) opens the file for writing ...
Truncate(r) ==
  /\ pc[r] = "save"
  /\ file' = "empty"
  /\ Goto(r, "write")
  /\ UNCHANGED <<force, owner, browser, answer, rc, obero, bounds>>

\* ... and writes it.  Over what another runner wrote since, a shorter text
\* leaves the end of the longer one.
Write(r) ==
  /\ pc[r] = "write"
  /\ \/ file' = cookies[r]
     \/ file # "empty" /\ file' = "mixed"
  /\ Goto(r, "launch")
  /\ UNCHANGED <<force, owner, browser, answer, rc, obero, bounds>>

----
(* run_cea_process() *)

\* The module launcher; without a session Obero redirects to its login page.
LaunchProcess(r) ==
  /\ pc[r] = "launch" /\ CanPrint(r)
  /\ \/ cookies[r] \in live /\ Goto(r, "token") /\ UNCHANGED <<browser, rc>>
     \/ cookies[r] \notin live /\ Exit(r, "1")
  /\ UNCHANGED <<force, owner, answer, file, obero, bounds>>

\* The verification token, from the page, a cookie or an observed request.
\* A pair of cookie and form token is reported when its cookie is set.
FindToken(r) ==
  /\ pc[r] = "token"
  /\ \E p \in BOOLEAN :
       /\ p => CanPrint(r)
       /\ pair' = [pair EXCEPT ![r] = p]
  /\ Goto(r, "post")
  /\ UNCHANGED <<force, owner, page, cookies, answer, rc, file, obero, bounds>>

\* Mutant: whatever was not ok is sent again as a form.
RetriesAny(r, got) ==
  pc[r] = "post" /\ got \notin {"ok", "login page"} /\ pair[r]

\* Only what Obero refused for want of a form field is sent again.
Retries(r, got) ==
  pc[r] = "post" /\ got = "antiforgery" /\ pair[r]

Answered(r, got, started) ==
  /\ answer' = [answer EXCEPT ![r] = got]
  /\ accepted' = [accepted EXCEPT ![r] = @ + started]
  /\ Goto(r, IF Retries(r, got) THEN "repost" ELSE "report")
  /\ UNCHANGED <<browser, rc>>

\* The POST to RunProcess, as JSON and then perhaps as a form.  Obero starts
\* the process and says so, or fails after starting it, or its answer is
\* lost; a session that has expired is redirected to the login page, which
\* is answered with 200.
Submit(r) ==
  /\ \/ pc[r] = "post"
     \/ pc[r] = "repost" /\ CanPrint(r)
  /\ \/ cookies[r] \in live /\ Answered(r, "ok", 1) /\ UNCHANGED bounds
     \/ cookies[r] \in live /\ Answered(r, "antiforgery", 0) /\ Trouble
     \/ cookies[r] \in live /\ Trouble
        /\ \E started \in {0, 1} : Answered(r, "error", started)
     \/ /\ cookies[r] \in live /\ Trouble
        /\ accepted' = [accepted EXCEPT ![r] = @ + 1]
        /\ Exit(r, "1") /\ UNCHANGED answer
     \/ /\ cookies[r] \notin live
        /\ \E got \in {"login page", "error"} : Answered(r, got, 0)
        /\ UNCHANGED bounds
  /\ UNCHANGED <<force, owner, file, live, granted>>

IsOk(got) == got \in {"ok", "login page"}

Report(r) ==
  /\ pc[r] = "report" /\ CanPrint(r)
  /\ Exit(r, IF IsOk(answer[r]) THEN "0" ELSE "1")
  /\ UNCHANGED <<force, owner, answer, file, obero, bounds>>

----
Run(r) ==
  \/ OpenContext(r) \/ CheckSaved(r) \/ OpenLogin(r) \/ FollowLink(r)
  \/ SubmitCredentials(r) \/ Authorise(r) \/ AnnounceWait(r) \/ AwaitHome(r)
  \/ Truncate(r) \/ Write(r)
  \/ LaunchProcess(r) \/ FindToken(r) \/ Submit(r) \/ Report(r)
  \/ PipeBreaks(r)

Next ==
  \/ \E r \in Runners : Launch(r) \/ Reap(r) \/ Kill(r) \/ Run(r) \/ GivesUp(r)
  \/ SchedulerDies
  \/ \E s \in Sessions : Expire(s)

Spec == Init /\ [][Next]_vars

\* Every wait of the runner has a timeout, and the scheduler starts the
\* client again in every cycle.
Fairness ==
  /\ \A r \in Runners : WF_vars(Run(r)) /\ WF_vars(Reap(r))
  /\ WF_vars(\E r \in Runners : Launch(r))

FairSpec == Spec /\ Fairness

----
(* Safety *)

Ended(r, code) == pc[r] = "exited" /\ rc[r] = code

\* A run starts the process at most once, although it may post twice and
\* answers get lost; and exit code 0, on which the scheduler takes the
\* client's load for launched, means that it was started, except when the
\* answer was the login page of a session that expired on the way.
SubmittedOnce ==
  \A r \in Runners :
    /\ accepted[r] <= 1
    /\ Ended(r, "0") => accepted[r] = 1 \/ answer[r] = "login page"

\* The session that the next run starts from was granted by Obero: a refused
\* login is never saved, also when it ends at the home address.
SavedSessionWasGranted == file \in Sessions => file \in granted

\* The file is no session, and no runner is about to write one.
Unreadable ==
  file \in {"empty", "mixed"} /\ \A r \in Runners : pc[r] # "write"

\* The file is torn only by a runner killed while it writes, or by two of
\* them, and there are two only after a scheduler died.
TornByKillOrOverlap ==
  Unreadable => kills > 0 \/ (file = "mixed" /\ deaths > 0)

----
(* Liveness *)

Submitted == \E r \in Runners : Ended(r, "0") /\ accepted[r] = 1

\* The client goes on being loaded, whatever session was saved, expired or
\* refused and whatever was killed, unless a torn session file is left: no
\* run reads past it, and none removes it.
KeepsSubmitting == []<>Submitted \/ <>[](Unreadable /\ ~force)
====
