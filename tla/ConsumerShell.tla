--------------------------- MODULE ConsumerShell ----------------------------
(***************************************************************************)
(* n0te/consumer_shell.py: the local window of the Headquarters.  One      *)
(* thread serves one request after another, so each request is one step;   *)
(* the browser posts the actions of the pages it was sent in any order,    *)
(* some more than once and some never, and the owner of the process may    *)
(* ask the window to stop between any two of them.                         *)
(*                                                                         *)
(* An action is a random token bound to what the page showed.  Rendering a *)
(* page revokes every earlier token; a token is spent by its first use,    *)
(* whatever then becomes of the form.  A POST without a live token, or     *)
(* with one whose binding no longer holds, changes nothing and is left     *)
(* out.  A Song belongs to one Artist; the Versions are SongVersions'.     *)
(***************************************************************************)
EXTENDS SongVersions

CONSTANTS
    Artists,      \* local profiles that may exist
    MaxSessions,  \* bound on the work Sessions of a Song
    MaxFailures   \* bound on closes, launches and answers that fail

VARIABLES
    runtime,    \* ApplicationRuntime.state
    profile,    \* the profile it holds, with its lease; None when STOPPED
    artists,    \* profiles that exist
    artistOf,   \* songs.artist_id
    active,     \* metadata.active_song_id of each profile
    session,    \* the latest work Session of each Song: its number and whether it is OPEN
    focused,    \* the ACTIVE Focus Session of each profile: mode and Song, or None
    tokens,     \* _actions: kind and binding of every live token
    shown,      \* what the page rendered last showed of the running profile
    blocked,    \* _blocked_state: the page that waits for the next GET of a stopped runtime
    stop,       \* _stop_requested
    stopError,  \* _stop_error has been recorded
    serving,    \* the thread is in its loop
    failures

desk == <<artistOf, active, session, focused>>
shell == <<tokens, shown, blocked, stop, stopError, serving, failures>>
shellVars == <<lineage, runtime, profile, artists, desk, shell>>

Modes == {"MAKE", "MANAGE"}
SongModes == {"MAKE"}   \* _FOCUS_SONG_DEFAULT_MODES

\* What a page is rendered from; the shell sees the running profile only.
View ==
    IF runtime # "RUNNING" THEN None
    ELSE LET song == active[profile] IN
         [song |-> song, focus |-> focused[profile],
          current |-> IF song = None THEN None ELSE current[song],
          approved |-> IF song = None THEN None ELSE approved[song],
          session |-> IF song = None THEN None ELSE session[song]]

ShellTypeOK ==
    /\ LineageTypeOK
    /\ runtime \in {"STOPPED", "RUNNING", "RECOVERY_REQUIRED"}
    /\ profile \in Artists \cup {None} /\ (profile = None <=> runtime = "STOPPED")
    /\ artists \subseteq Artists
    /\ \A a \in Artists : active[a] = None \/ artistOf[active[a]] = a
    /\ session \in [Songs -> [number : 0..MaxSessions, open : BOOLEAN]]
    /\ blocked \in {"no", "notice", "select"} /\ stop \in BOOLEAN /\ stopError \in BOOLEAN /\ serving \in BOOLEAN
    /\ failures \in 0..MaxFailures

ShellInit ==
    /\ LineageInit
    /\ runtime = "STOPPED" /\ profile = None /\ artists \in SUBSET Artists
    /\ artistOf = [s \in Songs |-> None] /\ active = [a \in Artists |-> None]
    /\ session = [s \in Songs |-> [number |-> 0, open |-> FALSE]]
    /\ focused = [a \in Artists |-> None]
    /\ tokens = {} /\ shown = None /\ blocked = "no"
    /\ stop = FALSE /\ stopError = FALSE /\ serving = TRUE /\ failures = 0

Fails == failures < MaxFailures /\ failures' = failures + 1

-----------------------------------------------------------------------------
(* Pages *)

SongTokens(song) ==
    {[kind |-> "song-material", song |-> song]}
    \cup {[kind |-> "song-version-resume", song |-> song, version |-> v, current |-> current[song]] :
             v \in VersionsOf(song) \ {current[song]}}
    \cup {[kind |-> "song-version-approve", song |-> song, version |-> v,
           current |-> current[song], approved |-> approved[song]] :
             v \in VersionsOf(song) \ {approved[song]}}
    \cup IF session[song].open
         THEN {[kind |-> k, session |-> <<song, session[song].number>>] :
                  k \in {"session-capture", "session-finish"}}
         ELSE {[kind |-> "session-start", song |-> song]}

NowTokens(focus) ==
    {[kind |-> "focus-set", mode |-> m] : m \in Modes}
    \cup IF focus = None THEN {} ELSE {[kind |-> "focus-end"]}

\* The actions of a page of the running window.
RunningTokens(path, view) ==
    CASE path = "/song" /\ view.song # None -> SongTokens(view.song)
      [] path = "/now" -> NowTokens(view.focus)
      [] path = "/settings" -> {[kind |-> "quit"]}
      [] path \in {"/", "/song"} /\ view.song = None -> {[kind |-> "song-start"]}
      [] OTHER -> {}

\* Mutant: the actions of the page shown before stay live.
RenderedOverTheLast(page) == page \cup tokens
\* _reset_actions, then the tokens of the page.
Rendered(page) == page

\* _render_state; the answer is prepared before it is sent, and a page that
\* cannot be prepared leaves no token a browser could know.
Render(page, view) ==
    /\ \/ tokens' = Rendered(page) /\ UNCHANGED failures
       \/ tokens' = {} /\ Fails
    /\ shown' = view

\* runtime.launch of a stopped runtime: opened, refused, or failed with its
\* lease still held.
Launch(a) ==
    \/ runtime' = "RUNNING" /\ profile' = a /\ blocked' = "no" /\ UNCHANGED failures
    \/ UNCHANGED <<runtime, profile>> /\ blocked' = "notice" /\ Fails
    \/ runtime' = "RECOVERY_REQUIRED" /\ profile' = a /\ blocked' = "notice" /\ Fails

GetRunning(path) ==
    /\ serving /\ runtime = "RUNNING"
    /\ blocked' = "no"
    /\ Render(RunningTokens(path, View), View)
    /\ UNCHANGED <<lineage, runtime, profile, artists, desk, stop, stopError, serving>>

\* _ensure_runtime answers with a page of its own.
GetStopped ==
    /\ serving /\ runtime # "RUNNING"
    /\ \/ blocked # "no" \/ runtime = "RECOVERY_REQUIRED" \/ Cardinality(artists) # 1
    /\ blocked' = "no"
    /\ Render(IF runtime = "RECOVERY_REQUIRED" THEN {[kind |-> "quit"]}
              ELSE IF blocked = "notice" THEN {}
              ELSE IF blocked = "no" /\ artists = {} THEN {[kind |-> "profile-create"]}
              ELSE {[kind |-> "profile-select", artist |-> a] : a \in artists}, None)
    /\ UNCHANGED <<lineage, runtime, profile, artists, desk, stop, stopError, serving>>

\* _ensure_runtime opens the only profile, and the page follows at once.
GetLaunches(path) ==
    /\ serving /\ runtime = "STOPPED" /\ blocked = "no"
    /\ UNCHANGED <<lineage, artists, desk, blocked, stop, stopError, serving>>
    /\ \E a \in Artists :
          /\ artists = {a}
          /\ \/ runtime' = "RUNNING" /\ profile' = a /\ UNCHANGED failures
             \/ UNCHANGED <<runtime, profile>> /\ Fails
             \/ runtime' = "RECOVERY_REQUIRED" /\ profile' = a /\ Fails
    /\ shown' = View'
    /\ tokens' = Rendered(CASE runtime' = "RUNNING" -> RunningTokens(path, View)'
                            [] runtime' = "RECOVERY_REQUIRED" -> {[kind |-> "quit"]}
                            [] OTHER -> {})

-----------------------------------------------------------------------------
(* Actions *)

\* _consume_action: the token is gone before the form is looked at.
Uses(t) == serving /\ t \in tokens /\ tokens' = tokens \ {t}

Acts(t) ==
    /\ runtime = "RUNNING" /\ Uses(t)
    /\ UNCHANGED <<runtime, profile, artists, shown, blocked, stop, stopError, serving, failures>>

Is(t, kind) == t.kind = kind

\* The text of the form is refused, or what the action calls fails whole.
Wasted(t) ==
    /\ t.kind # "quit" /\ (runtime = "RUNNING" \/ t.kind \in {"profile-create", "profile-select"})
    /\ Uses(t)
    /\ UNCHANGED <<lineage, runtime, profile, artists, desk, shown, blocked, stop, stopError, serving>>
    /\ Fails

\* A second window may have created profiles since the page was rendered;
\* the launch may wait for the next GET (profile_create_redirect_shell.py).
CreateProfile(t) ==
    /\ Is(t, "profile-create") /\ runtime = "STOPPED" /\ Uses(t)
    /\ \/ /\ artists = {}
          /\ \E a \in Artists :
                /\ artists' = {a}
                /\ \/ UNCHANGED <<runtime, profile, failures>> /\ blocked' = "no"
                   \/ Launch(a)
       \/ \E a \in Artists : artists = {a} /\ UNCHANGED artists /\ Launch(a)
       \/ /\ Cardinality(artists) > 1 /\ blocked' = "select"
          /\ UNCHANGED <<runtime, profile, artists, failures>>
    /\ UNCHANGED <<lineage, desk, shown, stop, stopError, serving>>

\* Another choice of the same page finds the runtime RUNNING: launch raises,
\* which wastes the token.
SelectProfile(t) ==
    /\ Is(t, "profile-select") /\ runtime = "STOPPED" /\ Uses(t)
    /\ Launch(t.artist)
    /\ UNCHANGED <<lineage, artists, desk, shown, stop, stopError, serving>>

\* create_song makes the Song the active one, whatever was active.
StartSong(t) ==
    /\ Is(t, "song-start") /\ Acts(t)
    /\ \E s \in Songs :
          /\ artistOf[s] = None
          /\ artistOf' = [artistOf EXCEPT ![s] = profile]
          /\ active' = [active EXCEPT ![profile] = s]
    /\ UNCHANGED <<lineage, session, focused>>

\* The new Version is based on what is current when the file arrives.
AddMaterial(t) ==
    /\ Is(t, "song-material") /\ Acts(t) /\ active[profile] = t.song
    /\ \E v \in Versions : Create_version(t.song, v, TRUE)
    /\ UNCHANGED desk

ResumeVersion(t) ==
    /\ Is(t, "song-version-resume") /\ Acts(t) /\ active[profile] = t.song
    /\ current[t.song] = t.current /\ t.version # t.current
    /\ Set_current_version(t.song, t.version)
    /\ UNCHANGED desk

\* version_approval.approve, one transaction.
ApproveVersion(t) ==
    /\ Is(t, "song-version-approve") /\ Acts(t) /\ active[profile] = t.song
    /\ current[t.song] = t.current /\ approved[t.song] = t.approved
    /\ Approve_version(t.song, t.version)
    /\ UNCHANGED desk

StartSession(t) ==
    /\ Is(t, "session-start") /\ Acts(t) /\ active[profile] = t.song
    /\ ~session[t.song].open /\ session[t.song].number < MaxSessions
    /\ session' = [session EXCEPT ![t.song] = [number |-> @.number + 1, open |-> TRUE]]
    /\ UNCHANGED <<lineage, artistOf, active, focused>>

\* The Session of the page is still the open one of the active Song.
OfOpenSession(t) ==
    \E s \in Songs : active[profile] = s /\ session[s].open /\ t.session = <<s, session[s].number>>

\* What was captured is left out (SongSessions).
CaptureInSession(t) ==
    /\ Is(t, "session-capture") /\ Acts(t) /\ OfOpenSession(t)
    /\ UNCHANGED <<lineage, desk>>

FinishSession(t) ==
    /\ Is(t, "session-finish") /\ Acts(t) /\ OfOpenSession(t)
    /\ session' = [session EXCEPT ![active[profile]].open = FALSE]
    /\ UNCHANGED <<lineage, artistOf, active, focused>>

\* The Song is the one active when the choice arrives; the page only named it.
SetFocus(t) ==
    /\ Is(t, "focus-set") /\ Acts(t)
    /\ focused' = [focused EXCEPT ![profile] =
                     [mode |-> t.mode, song |-> IF t.mode \in SongModes THEN active[profile] ELSE None]]
    /\ UNCHANGED <<lineage, artistOf, active, session>>

EndFocus(t) ==
    /\ Is(t, "focus-end") /\ Acts(t)
    /\ focused' = [focused EXCEPT ![profile] = None]
    /\ UNCHANGED <<lineage, artistOf, active, session>>

\* runtime.quit: the Headquarters closes and the lease is released, or the
\* runtime keeps both for a retry.
Quits ==
    \/ runtime' = "STOPPED" /\ profile' = None /\ UNCHANGED failures
    \/ runtime # "STOPPED" /\ runtime' = "RECOVERY_REQUIRED" /\ UNCHANGED profile /\ Fails

\* The closed page is sent before the stop is requested: an answer that
\* cannot be sent leaves the window serving a stopped runtime.
Quit(t) ==
    /\ Is(t, "quit") /\ serving /\ t \in tokens
    /\ Quits
    /\ IF runtime' = "STOPPED"
       THEN /\ tokens' = tokens \ {t} /\ UNCHANGED shown
            /\ stop' = TRUE \/ UNCHANGED stop
       ELSE tokens' = Rendered({[kind |-> "quit"]}) /\ shown' = None /\ UNCHANGED stop
    /\ UNCHANGED <<lineage, artists, desk, blocked, stopError, serving>>

-----------------------------------------------------------------------------
(* The window *)

\* stop(), called by the owner of the process.
AskToStop ==
    /\ serving /\ ~stop /\ stop' = TRUE
    /\ UNCHANGED <<lineage, runtime, profile, artists, desk, tokens, shown, blocked,
                   stopError, serving, failures>>

\* Mutant: the loop ends though the runtime could not quit.
LeavesAnyway(released) == TRUE
Leaves(released) == released

\* The top of the loop of _serve, between two requests.
LoopStops ==
    /\ serving /\ stop /\ Quits
    /\ serving' = ~Leaves(runtime' = "STOPPED")
    /\ stop' = Leaves(runtime' = "STOPPED")
    /\ stopError' = (stopError \/ runtime' # "STOPPED")
    /\ UNCHANGED <<lineage, artists, desk, tokens, shown, blocked>>

\* Another surface uses a profile this runtime does not hold: it creates the
\* profile, or starts a Song and a Version in it.
Elsewhere ==
    \E a \in Artists :
        /\ a # profile
        /\ artists' = artists \cup {a}
        /\ \/ a \notin artists /\ UNCHANGED <<artistOf, active, lineage>>
           \/ \E s \in Songs, v \in Versions :
                 /\ artistOf[s] = None /\ artistOf' = [artistOf EXCEPT ![s] = a]
                 /\ active' = [active EXCEPT ![a] = s]
                 /\ Create_version(s, v, TRUE)
        /\ UNCHANGED <<runtime, profile, session, focused, shell>>

Post(t) ==
    \/ CreateProfile(t) \/ SelectProfile(t) \/ StartSong(t) \/ AddMaterial(t)
    \/ ResumeVersion(t) \/ ApproveVersion(t) \/ StartSession(t) \/ CaptureInSession(t)
    \/ FinishSession(t) \/ SetFocus(t) \/ EndFocus(t) \/ Quit(t) \/ Wasted(t)

Request ==
    \/ GetStopped
    \/ \E path \in {"/", "/song", "/now", "/settings"} : GetRunning(path) \/ GetLaunches(path)
    \/ \E t \in tokens : Post(t)

ShellNext == Request \/ AskToStop \/ LoopStops \/ Elsewhere

ShellSpec == ShellInit /\ [][ShellNext]_shellVars

-----------------------------------------------------------------------------
(* Properties *)

\* What an action of the page changes is what the page showed: a Song is only
\* started from a window that showed none, a Focus binds the Song it named,
\* a Session is started or finished where it was shown closed or open, and a
\* pointer moves from where it was shown, however the posts of one page, of
\* older pages and of two windows follow each other.  Only material may find
\* that the current Version has moved: a choice of the same page moved it.
ActsAsShown ==
    runtime = "RUNNING" =>
        /\ active'[profile] # active[profile] => shown # None /\ shown.song = active[profile]
        /\ focused'[profile] # focused[profile] => shown # None /\ shown.song = active[profile]
        /\ \A s \in Songs : artistOf[s] = profile =>
              /\ session'[s] # session[s] =>
                    shown # None /\ shown.song = s /\ shown.session = session[s]
              /\ approved'[s] # approved[s] =>
                    shown # None /\ shown.song = s
                       /\ shown.approved = approved[s] /\ shown.current = current[s]
              /\ current'[s] # current[s] => shown # None /\ shown.song = s
ActsOnWhatWasShown == [][ActsAsShown]_shellVars

\* _serve, stop: the window never ends with a profile still held, whichever of
\* a Quit, a request to stop, a close or a release that fails, or a relaunch by
\* a late page comes last.
EndsReleased == ~serving => runtime = "STOPPED"

=============================================================================
