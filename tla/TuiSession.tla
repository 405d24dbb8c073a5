----------------------------- MODULE TuiSession -----------------------------
(* TUI processes, the backend process they share, and the token between them.

   The token lives in three places: the file session.token, App.apiToken and
   the memory of each TUI.  A TUI reads the file or creates it, finds or
   spawns a backend, proves the token and registers its pid (tui/main.go,
   tui/api.go).  The backend's ticker finds that the registered process is
   gone, writes a new token to the file and then swaps its own
   (backend/server.go).  A logout wipes the file with the rest.

   The other thing a backend process is told by its TUI is whether the user is
   to be seen online; sendOwnPresence reads that setting under App.mu and
   sends it after the unlock (backend/presence.go).  WhatsApp is external.  *)
EXTENDS Naturals, Sequences, FiniteSets

CONSTANTS
    Tuis,       \* TUI processes, in the order they are started (pids)
    MaxTokens,  \* bound: tokens ever made
    MaxLogouts, \* bound: logouts
    MaxRelaunches,\* bound: uses of /restart
    MaxSyncs    \* bound: connections to WhatsApp and POSTs of /presence

ASSUME TuiSessionAssumption ==
    /\ Tuis \subseteq Nat \ {0}
    /\ {MaxTokens, MaxLogouts, MaxRelaunches, MaxSyncs} \subseteq Nat

NoToken == 0
NoPid == 0

VARIABLES
    file,       \* session.token
    backend,    \* the process on the port
    tui,        \* each TUI: what it is doing, its token, its child
    made,       \* number of tokens made
    retired,    \* tokens a rotation has replaced
    strayed,    \* the file of this backend was wiped by a logout, or replaced by
                \* a TUI that had found none
    setting,    \* currentConfig.ShowOnline
    asked,      \* a TUI has told this backend to show the user online
    wa,         \* the connection to WhatsApp, and what WhatsApp shows
    sending,    \* presences read and not sent yet, oldest first
    left        \* the bounds

presence == <<setting, asked, wa, sending>>
tokens == <<made, retired, strayed>>
sessionVars == <<file, backend, tui, tokens, presence, left>>

NoBackend == [alive |-> FALSE, old |-> FALSE, token |-> NoToken, pid |-> NoPid,
              aged |-> FALSE, rotating |-> "no", new |-> NoToken,
              showOnline |-> FALSE]
\* Mutant: the setting starts as the TUI's default, which is to be shown.
NewBackendOnline == [NoBackend EXCEPT !.alive = TRUE, !.token = file,
                                      !.showOnline = TRUE]
NewBackend == [NoBackend EXCEPT !.alive = TRUE, !.token = file]
Offline == [connected |-> FALSE, shown |-> FALSE, mixed |-> FALSE]

Alive(t) == tui[t].at \notin {"off", "gone"}
\* isAuthorized
Authorized(t) == backend.alive /\ backend.token = tui[t].token
\* The memory of a backend that is gone: what was being sent, and the setting.
BackendGone ==
    /\ backend' = NoBackend
    /\ asked' = FALSE /\ wa' = Offline /\ sending' = <<>>
    /\ strayed' = FALSE

\* Nothing runs, or a backend of an older build that somebody left behind.
SessionInit ==
    /\ made = 1
    /\ \/ file = NoToken /\ backend = NoBackend
       \/ file = 1 /\ backend \in
            {NoBackend, [NoBackend EXCEPT !.alive = TRUE, !.old = TRUE,
                                          !.token = 1]}
    /\ tui = [t \in Tuis |-> [at |-> "off", token |-> NoToken, child |-> FALSE,
                              accepted |-> FALSE]]
    /\ retired = {} /\ strayed = FALSE
    /\ setting \in BOOLEAN /\ asked = FALSE /\ wa = Offline /\ sending = <<>>
    /\ left = [logouts |-> MaxLogouts, restarts |-> MaxRelaunches,
               syncs |-> MaxSyncs]

-----------------------------------------------------------------------------
(* The TUI's start.                                                          *)

\* resolveSessionToken: the token of the file, or a new one.
Launch(t) ==
    /\ tui[t].at = "off" /\ \A u \in Tuis : u < t => tui[u].at # "off"
    /\ tui' = [tui EXCEPT ![t].token = file,
                          ![t].at = IF file = NoToken THEN "creating"
                                    ELSE "ensuring"]
    /\ UNCHANGED <<file, backend, tokens, presence, left>>

CreateToken(t) ==
    /\ tui[t].at = "creating" /\ made < MaxTokens
    /\ made' = made + 1 /\ file' = made'
    /\ tui' = [tui EXCEPT ![t].token = made', ![t].at = "ensuring"]
    /\ strayed' = (strayed \/ (backend.alive /\ file # NoToken))
    /\ UNCHANGED <<backend, retired, presence, left>>

\* ensureBackend: a backend of this build is used, one of another build is
\* asked to stop (requestShutdown), which it refuses with another token.
EnsureBackend(t) ==
    /\ tui[t].at = "ensuring"
    /\ \/ /\ ~backend.alive \/ (backend.old /\ Authorized(t))
          /\ tui' = [tui EXCEPT ![t].at = "spawning"]
          /\ BackendGone
       \/ /\ backend.alive /\ backend.old /\ ~Authorized(t)
          /\ tui' = [tui EXCEPT ![t].at = "failed"]
          /\ UNCHANGED <<backend, asked, wa, sending, strayed>>
       \/ /\ backend.alive /\ ~backend.old
          /\ tui' = [tui EXCEPT ![t].at = "probing"]
          /\ UNCHANGED <<backend, asked, wa, sending, strayed>>
    /\ UNCHANGED <<file, made, retired, setting, left>>

\* A backend does not start without a token.
readSessionToken == file # NoToken

\* spawnBackendProcess: readSessionToken ends the process without a file; a
\* second backend finds the port taken and ends too.
Spawn(t) ==
    /\ tui[t].at = "spawning"
    /\ IF ~readSessionToken /\ ~backend.alive
       THEN tui' = [tui EXCEPT ![t].at = "failed"] /\ UNCHANGED backend
       ELSE /\ tui' = [tui EXCEPT ![t].at = "probing",
                                  ![t].child = ~backend.alive]
            /\ backend' = IF backend.alive THEN backend ELSE NewBackend
    /\ UNCHANGED <<file, tokens, presence, left>>

\* probeAuth
Probe(t) ==
    /\ tui[t].at = "probing"
    /\ tui' = [tui EXCEPT ![t].at = IF Authorized(t) THEN "running"
                                    ELSE "failed"]
    /\ UNCHANGED <<file, backend, tokens, presence, left>>

\* registerSession and handleSessionRegister: the last TUI to register counts.
Register(t) ==
    /\ tui[t].at = "running"
    /\ IF Authorized(t)
       THEN /\ backend' = [backend EXCEPT !.pid = t, !.aged = FALSE]
            /\ tui' = [u \in Tuis |->
                 IF u = t THEN [tui[u] EXCEPT !.at = "registered",
                                              !.accepted = TRUE]
                 ELSE [tui[u] EXCEPT !.accepted = FALSE]]
       ELSE /\ UNCHANGED backend
            /\ tui' = [tui EXCEPT ![t].at = "registered"]
    /\ UNCHANGED <<file, tokens, presence, left>>

-----------------------------------------------------------------------------
(* The TUI's end.                                                            *)

\* cleanup: the backend is asked to stop, and a child is killed.
Stops(t) == Authorized(t) \/ (tui[t].child /\ backend.alive)

Leave(t, at) ==
    /\ tui[t].at \in {"running", "registered", "failed"}
    /\ tui' = [u \in Tuis |->
         IF u = t THEN [tui[u] EXCEPT !.at = at, !.child = FALSE,
                                      !.accepted = FALSE]
         ELSE IF Stops(t) THEN [tui[u] EXCEPT !.child = FALSE,
                                              !.accepted = FALSE]
         ELSE tui[u]]
    /\ IF Stops(t) THEN BackendGone
       ELSE UNCHANGED <<backend, asked, wa, sending, strayed>>
    /\ UNCHANGED <<file, made, retired, setting>>

Quit(t) == Leave(t, "gone") /\ UNCHANGED left

\* /restart: the loop of Main starts over; the token was resolved before it.
RestartTui(t) ==
    /\ left.restarts > 0 /\ left' = [left EXCEPT !.restarts = @ - 1]
    /\ Leave(t, "ensuring")

\* The TUI is killed: the backend it spawned goes on without it.
TuiDies(t) ==
    /\ Alive(t)
    /\ tui' = [tui EXCEPT ![t] = [@ EXCEPT !.at = "gone", !.child = FALSE,
                                           !.accepted = FALSE]]
    /\ UNCHANGED <<file, backend, tokens, presence, left>>

BackendDies ==
    /\ backend.alive
    /\ tui' = [u \in Tuis |-> [tui[u] EXCEPT !.child = FALSE,
                                             !.accepted = FALSE]]
    /\ BackendGone
    /\ UNCHANGED <<file, made, retired, setting, left>>

\* A logout leaves nothing in the directory but the logs.
Logout(t) ==
    /\ tui[t].at \in {"running", "registered"} /\ Authorized(t)
    /\ left.logouts > 0 /\ left' = [left EXCEPT !.logouts = @ - 1]
    /\ file' = NoToken /\ strayed' = TRUE
    /\ wa' = Offline
    /\ UNCHANGED <<backend, tui, made, retired, setting, asked, sending>>

-----------------------------------------------------------------------------
(* rotateTokenIfSessionDead, from the ticker of 30 seconds.                  *)

\* sessionGraceDuration has passed since the registration.
Age ==
    /\ backend.alive /\ backend.pid # NoPid /\ ~backend.aged
    /\ backend' = [backend EXCEPT !.aged = TRUE]
    /\ UNCHANGED <<file, tui, tokens, presence, left>>

\* pid and time are read under App.mu; processAlive asks after the unlock.
Tick ==
    /\ backend.alive /\ backend.rotating = "no"
    /\ backend.pid # NoPid /\ backend.aged /\ ~Alive(backend.pid)
    /\ backend' = [backend EXCEPT !.rotating = "decided"]
    /\ UNCHANGED <<file, tui, tokens, presence, left>>

\* Mutant: a failing write does not end the rotation.
RotateWriteUnchecked ==
    /\ backend.rotating = "decided" /\ made < MaxTokens
    /\ made' = made + 1
    /\ backend' = [backend EXCEPT !.rotating = "written", !.new = made']
    /\ file' \in {file, made'}
    /\ UNCHANGED <<tui, retired, strayed, presence, left>>

\* The new token is written, or the write fails and the old one stays.
RotateWrite ==
    /\ backend.rotating = "decided" /\ made < MaxTokens
    /\ made' = made + 1
    /\ \/ /\ backend' = [backend EXCEPT !.rotating = "written", !.new = made']
          /\ file' = made'
       \/ /\ backend' = [backend EXCEPT !.rotating = "no"]
          /\ UNCHANGED file
    /\ UNCHANGED <<tui, retired, strayed, presence, left>>

\* Mutant: the token in memory is not replaced.
RotateSwapForgets ==
    /\ backend.rotating = "written"
    /\ backend' = [backend EXCEPT !.pid = NoPid, !.rotating = "no",
                                  !.new = NoToken]
    /\ UNCHANGED <<file, tui, tokens, presence, left>>

RotateSwap ==
    /\ backend.rotating = "written"
    /\ backend' = [backend EXCEPT !.token = backend.new, !.pid = NoPid,
                                  !.rotating = "no", !.new = NoToken]
    /\ retired' = retired \cup {backend.token}
    /\ strayed' = (strayed /\ file # backend.new)
    /\ UNCHANGED <<file, tui, made, presence, left>>

-----------------------------------------------------------------------------
(* The user's presence.                                                      *)

Send(online) == Append(sending, [online |-> online, passed |-> FALSE])

\* The user switches "Show online status" in a TUI, or a TUI that sees the
\* session come up repeats the setting (presenceSyncCmd).  handlePresence
\* stores it, and publishes it when there is a connection.
SyncPresence(t) ==
    /\ tui[t].at \in {"running", "registered"}
    /\ left.syncs > 0 /\ left' = [left EXCEPT !.syncs = @ - 1]
    /\ setting' \in BOOLEAN
    /\ IF Authorized(t)
       THEN /\ backend' = [backend EXCEPT !.showOnline = setting']
            /\ asked' = (asked \/ setting')
            /\ sending' = IF wa.connected THEN Send(setting') ELSE sending
       ELSE UNCHANGED <<backend, asked, sending>>
    /\ UNCHANGED <<file, tui, tokens, wa>>

\* events.Connected starts a goroutine that publishes the setting.
Connect ==
    /\ backend.alive /\ ~wa.connected
    /\ left.syncs > 0 /\ left' = [left EXCEPT !.syncs = @ - 1]
    /\ wa' = [wa EXCEPT !.connected = TRUE]
    /\ sending' = Send(backend.showOnline)
    /\ UNCHANGED <<file, backend, tui, tokens, setting, asked>>

Disconnect ==
    /\ wa.connected
    /\ wa' = [wa EXCEPT !.connected = FALSE, !.shown = FALSE]
    /\ UNCHANGED <<file, backend, tui, tokens, setting, asked, sending, left>>

\* SendPresence by one of the goroutines; those that read before it and have
\* not sent are overtaken.
SendPresence ==
    /\ \E i \in DOMAIN sending :
         /\ wa' = [wa EXCEPT !.shown = wa.connected /\ sending[i].online,
                             !.mixed = sending[i].passed]
         /\ sending' = [j \in 1..Len(sending) - 1 |->
                          IF j < i THEN [sending[j] EXCEPT !.passed = TRUE]
                          ELSE sending[j + 1]]
    /\ UNCHANGED <<file, backend, tui, tokens, setting, asked, left>>

-----------------------------------------------------------------------------
SessionNext ==
    \/ \E t \in Tuis :
         \/ Launch(t) \/ CreateToken(t) \/ EnsureBackend(t) \/ Spawn(t)
         \/ Probe(t) \/ Register(t) \/ Quit(t) \/ RestartTui(t) \/ TuiDies(t)
         \/ Logout(t) \/ SyncPresence(t)
    \/ BackendDies \/ Age \/ Tick \/ RotateWrite \/ RotateSwap
    \/ Connect \/ Disconnect \/ SendPresence

SessionSpec == SessionInit /\ [][SessionNext]_sessionVars

-----------------------------------------------------------------------------
(* Properties.                                                               *)

\* The types of the state.
SessionTypeOK ==
    /\ made \in 1..MaxTokens /\ {file, backend.token, backend.new} \subseteq 0..made
    /\ retired \subseteq 1..made /\ backend.pid \in Tuis \cup {NoPid}
    /\ backend.rotating \in {"no", "decided", "written"}
    /\ \A t \in Tuis :
         /\ tui[t].at \in {"off", "creating", "ensuring", "spawning", "probing",
                           "failed", "running", "registered", "gone"}
         /\ tui[t].token \in 0..made

\* A token that a rotation has replaced opens no backend again, neither this
\* process nor one that is started later from the file.
RetiredStaysRetired == backend.alive => backend.token \notin retired

\* Unless it has strayed, the file holds the token of the backend
\* whenever no rotation is between its two writes: the next TUI gets in.
FileOpensBackend ==
    backend.alive /\ ~strayed /\ file # NoToken /\ backend.rotating # "written"
    => backend.token = file

\* Nobody sees the user online unless a TUI has asked this backend process for
\* it, in whatever order settings and connections come; and when nothing is
\* being sent, WhatsApp shows the setting, unless the presence sent last was
\* read before one that was sent earlier.
HiddenByDefault ==
    /\ wa.shown => asked
    /\ wa.connected /\ sending = <<>> /\ ~wa.mixed
       => wa.shown = backend.showOnline

\* Not kept by the code (README, "Disagreements"):
\* The token of the file is reused: "this lets a restarted TUI reconnect to an
\* already-running backend without a token mismatch" (tui/main.go:143).  The
\* TUI that registered last is not locked out while it lives.
LiveTuiStaysIn ==
    \A t \in Tuis : Alive(t) /\ tui[t].accepted => Authorized(t)
=============================================================================
