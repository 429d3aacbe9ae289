------------------------------ MODULE Settings ------------------------------
(***************************************************************************)
(* What the program remembers outside its vaults, and the processes that   *)
(* change it (internal/processguard, profile, remotes, appconfig; main.go  *)
(* and internal/webui call them).  A GUI that starts tells every other     *)
(* process of the program to stop, whatever it is doing, and goes on while *)
(* they may still run.  The saved locations are written in place; the      *)
(* remote profiles and the configuration appear by a rename; the           *)
(* certificate and its key are two files written in turn.                  *)
(***************************************************************************)
EXTENDS Naturals, FiniteSets

CONSTANTS Proc,  \* processes of the program
          Name,  \* names of saved locations and of remote profiles
          User,  \* user names of the GUI's login
          Hash,  \* password verifiers
          Pair,  \* certificates, each with its key
          None,  \* nothing
          Torn,  \* a file cut short
          Worlds \* what users change: entries of the stores, login and protocol of the GUI

ASSUME SettingsAssumption ==
    /\ None \notin User \cup Hash \cup Pair /\ Torn \notin Pair \cup {None}
    /\ Cardinality(Pair) >= 2 /\ Worlds \subseteq SUBSET {"entries", "login", "protocol"}

VARIABLES
    world,    \* never changes
    proc,     \* the processes
    doomed,   \* those that have been sent a signal to stop, and still run
    store,    \* profiles.json and remotes.json
    wanted,   \* history: what all completed changes of each were to leave
    config,   \* appconfig.json; a missing one counts as the default
    memory,   \* the configuration that a GUI serves with
    page,     \* the configuration that a browser page shows
    behind,   \* history: the GUIs since whose last save, or start, another process
              \* has saved or reset the configuration
    cert,     \* seavault-local.crt
    key,      \* seavault-local.key
    cut       \* history: the files whose writing a kill or an error broke off

vars == <<world, proc, doomed, store, wanted, config, memory, page, behind, cert, key, cut>>

Stores  == <<store, wanted>>
Configs == <<config, memory, page, behind>>
Tls     == <<cert, key>>

Store   == {"profiles", "remotes"}
Config  == [user : User \cup {None}, hash : Hash \cup {None}, https : BOOLEAN, certified : BOOLEAN]
Default == [user |-> None, hash |-> None, https |-> FALSE, certified |-> FALSE]

Gone == [role |-> "none", pc |-> "none", up |-> FALSE, targets |-> {}, failed |-> FALSE, cfg |-> Default,
         store |-> "profiles", name |-> None, names |-> {}, pair |-> None]

Init ==
    /\ world \in Worlds
    /\ proc = [p \in Proc |-> Gone] /\ doomed = {} /\ behind = {}
    /\ store = [s \in Store |-> {}] /\ wanted = store
    /\ config = Default /\ page = None
    /\ memory = [p \in Proc |-> Default]
    /\ cert = None /\ key = None
    /\ cut = {}

Running(p) == proc[p].role # "none"

\* Assumption: one change at a time, also when one of the two processes has been told to
\* stop; the files have no lock.
AtRest(p) == proc[p].pc \in {"none", "listing", "killing", "serving", "ready"}
Alone(p)  == \A q \in Proc \ {p} : AtRest(q)

-----------------------------------------------------------------------------
\* A process starts, with a number that no list of processes holds yet.
Start(p, role) ==
    /\ ~Running(p)
    /\ proc' = [q \in Proc |->
         IF q = p THEN [Gone EXCEPT !.role = role, !.pc = IF role = "gui" THEN "listing" ELSE "ready"]
         ELSE IF p \in proc[q].targets
         THEN [proc[q] EXCEPT !.targets = @ \ {p}, !.failed = TRUE] ELSE proc[q]]
    /\ UNCHANGED <<world, doomed, cut>> /\ UNCHANGED Stores /\ UNCHANGED Configs /\ UNCHANGED Tls

Step(p, from, to) ==
    /\ proc[p].pc = from
    /\ proc' = [proc EXCEPT ![p].pc = to]
    /\ UNCHANGED <<world, doomed, cut>>

\* Mutant: only a GUI that serves is taken for an instance.
ListServing(p) ==
    /\ proc[p].pc = "listing"
    /\ proc' = [proc EXCEPT ![p].pc = "killing", ![p].targets = {q \in Proc \ {p} : proc[q].pc = "serving"}]
    /\ UNCHANGED <<world, doomed, cut>> /\ UNCHANGED Stores /\ UNCHANGED Configs /\ UNCHANGED Tls

\* listProcesses and isSeaVaultProcess: whatever command it runs.
List(p) ==
    /\ proc[p].pc = "listing"
    /\ proc' = [proc EXCEPT ![p].pc = "killing", ![p].targets = {q \in Proc \ {p} : Running(q)}]
    /\ UNCHANGED <<world, doomed, cut>> /\ UNCHANGED Stores /\ UNCHANGED Configs /\ UNCHANGED Tls

\* The file that a process has opened and not yet written.
Open(p) ==
    CASE proc[p].pc = "writing" -> {"profiles"}
      [] proc[p].pc = "certing" -> {"cert"}
      [] proc[p].pc = "keying"  -> {"key"}
      [] OTHER                  -> {}

\* terminateProcess sends a signal to one of them, and fails if it has ended; it does not
\* wait for the end.
Terminate(p, q) ==
    /\ proc[p].pc = "killing" /\ q \in proc[p].targets
    /\ proc' = [proc EXCEPT ![p].targets = @ \ {q}, ![p].failed = @ \/ ~Running(q)]
    /\ doomed' = IF Running(q) THEN doomed \cup {q} ELSE doomed
    /\ UNCHANGED <<world, cut>> /\ UNCHANGED Stores /\ UNCHANGED Configs /\ UNCHANGED Tls

End(p) ==
    /\ proc' = [proc EXCEPT ![p] = Gone]
    /\ doomed' = doomed \ {p} /\ behind' = behind \ {p}
    /\ memory' = [memory EXCEPT ![p] = Default]
    /\ UNCHANGED <<world, config, page>> /\ UNCHANGED Stores /\ UNCHANGED Tls

\* The signal ends its process, which has no handler for it, in the middle of anything.
Die(p) == p \in doomed /\ End(p) /\ cut' = cut \cup Open(p)

\* The GUI goes on when all have been sent a signal; after a failure it gives up (Exit).
PassGuard(p) ==
    /\ proc[p].targets = {} /\ ~proc[p].failed /\ Step(p, "killing", "loading")
    /\ UNCHANGED Stores /\ UNCHANGED Configs /\ UNCHANGED Tls

\* A process ends by itself, between two changes.
Exit(p) == Running(p) /\ AtRest(p) /\ End(p) /\ UNCHANGED cut

\* Back to waiting: a GUI serves, a command has one thing to do.
Rest(p) == [Gone EXCEPT !.role = proc[p].role, !.up = proc[p].up, !.pc = IF proc[p].up THEN "serving" ELSE "ready"]

\* An error is returned: what was being written stays as it is, a request is answered by
\* it, and a command or a GUI that is not up yet ends.
GiveUp(p) ==
    /\ cut' = cut \cup Open(p)
    /\ \/ ~proc[p].up /\ End(p)
       \/ /\ proc[p].up /\ proc' = [proc EXCEPT ![p] = Rest(p)]
          /\ UNCHANGED <<world, doomed>> /\ UNCHANGED Stores /\ UNCHANGED Configs /\ UNCHANGED Tls

-----------------------------------------------------------------------------
\* appconfig.Load and, for https, EnsureSelfSignedCertificate before the GUI serves.
LoadConfig(p) ==
    /\ proc[p].pc = "loading" /\ Alone(p)
    /\ proc' = [proc EXCEPT ![p].cfg = config,
                            ![p].pc = IF config.https THEN "certifying" ELSE "saved"]
    /\ UNCHANGED <<world, doomed, cut>> /\ UNCHANGED Stores /\ UNCHANGED Configs /\ UNCHANGED Tls

\* Mutant: the pair is used again as soon as there is a certificate.
ReusableByCert == cert # None

\* Both files are there, whatever they hold.
Reusable == cert # None /\ key # None

Certified(p) == proc[p].cfg.certified \/ Reusable

ReuseCertificate(p) ==
    /\ proc[p].pc = "certifying" /\ Certified(p)
    /\ proc' = [proc EXCEPT ![p].pc = "saving", ![p].cfg.certified = TRUE]
    /\ UNCHANGED <<world, doomed, cut>> /\ UNCHANGED Stores /\ UNCHANGED Configs /\ UNCHANGED Tls

\* writeSelfSigned: each file is truncated and then written, the certificate first.
OpenCert(p) ==
    /\ ~Certified(p) /\ proc[p].pc = "certifying"
    /\ \E n \in Pair \ {cert, key} : proc' = [proc EXCEPT ![p].pc = "certing", ![p].pair = n]
    /\ cert' = Torn
    /\ UNCHANGED <<world, doomed, cut, key>> /\ UNCHANGED Stores /\ UNCHANGED Configs

WriteCert(p) ==
    /\ Step(p, "certing", "keyless") /\ cert' = proc[p].pair
    /\ UNCHANGED key /\ UNCHANGED Stores /\ UNCHANGED Configs

OpenKey(p) ==
    /\ Step(p, "keyless", "keying") /\ key' = Torn
    /\ UNCHANGED cert /\ UNCHANGED Stores /\ UNCHANGED Configs

WriteKey(p) ==
    /\ proc[p].pc = "keying"
    /\ proc' = [proc EXCEPT ![p].pc = "saving", ![p].cfg.certified = TRUE, ![p].pair = None]
    /\ key' = proc[p].pair
    /\ UNCHANGED <<world, doomed, cut, cert>> /\ UNCHANGED Stores /\ UNCHANGED Configs

\* A step of writeSelfSigned fails, or one before it.
FailCertificate(p) ==
    /\ proc[p].pc \in {"certifying", "certing", "keyless", "keying"} /\ ~proc[p].cfg.certified
    /\ GiveUp(p)

\* The GUIs that serve while p changes the configuration are behind from now on.
Overtake(p) == behind' = {q \in Proc \ {p} : proc[q].up}

\* appconfig.Save writes a temporary file and renames it; it may fail.
SaveConfig(p) ==
    /\ Step(p, "saving", "saved")
    /\ config' = proc[p].cfg /\ Overtake(p)
    /\ UNCHANGED <<memory, page>> /\ UNCHANGED Stores /\ UNCHANGED Tls

\* Mutant: a server whose save has failed goes over to the new configuration all the same.
FailSaveUnnoticed(p) == Step(p, "saving", "saved") /\ UNCHANGED Stores /\ UNCHANGED Configs /\ UNCHANGED Tls

\* Mutant: the configuration that could not be saved is kept for the next request.
FailSaveKeeping(p) ==
    /\ Step(p, "saving", IF proc[p].up THEN "serving" ELSE "none")
    /\ UNCHANGED Stores /\ UNCHANGED Configs /\ UNCHANGED Tls

\* A save that fails is reported, as is a file that a start cannot read.
FailSave(p) == proc[p].pc \in {"loading", "saving"} /\ GiveUp(p)

\* Only then does the server go over to the new configuration.
Serve(p) ==
    /\ proc[p].pc = "saved"
    /\ proc' = [proc EXCEPT ![p] = [Gone EXCEPT !.role = "gui", !.pc = "serving", !.up = TRUE]]
    /\ memory' = [memory EXCEPT ![p] = proc[p].cfg]
    /\ UNCHANGED <<world, doomed, cut, config, page, behind>> /\ UNCHANGED Stores /\ UNCHANGED Tls

-----------------------------------------------------------------------------
Configuring == world \cap {"login", "protocol"} # {}

\* The browser page, which may show an older configuration than the server has.
LoadPage(p) ==
    /\ Configuring /\ proc[p].up /\ page # memory[p]
    /\ page' = memory[p]
    /\ UNCHANGED <<world, proc, doomed, config, memory, behind, cut>> /\ UNCHANGED Stores /\ UNCHANGED Tls

WithUser(c, user) == [c EXCEPT !.user = user, !.hash = IF user = None THEN None ELSE @]

\* handleAppConfig: what the page shows with a user name and a protocol; the former
\* password stays with its user unless there is a new one.
Posted(previous, user, https, password) ==
    LET shown == WithUser([page EXCEPT !.https = https], user) IN
    [shown EXCEPT !.hash = IF password # None THEN password
                           ELSE IF @ = None /\ previous.user = user THEN previous.hash ELSE @]

Process(p, cfg) ==
    /\ Configuring /\ proc[p].pc = "serving" /\ Alone(p)
    /\ proc' = [proc EXCEPT ![p].cfg = cfg, ![p].pc = IF cfg.https THEN "certifying" ELSE "saving"]
    /\ UNCHANGED <<world, doomed, cut>> /\ UNCHANGED Stores /\ UNCHANGED Configs /\ UNCHANGED Tls

\* Saving from the page; to clear the login is to save no user.
PostConfig(p) ==
    /\ page # None
    /\ \E user \in User \cup {None}, https \in BOOLEAN, password \in Hash \cup {None} :
        /\ user = None => password = None
        /\ user # None => "login" \in world
        /\ https => "protocol" \in world
        /\ Process(p, Posted(memory[p], user, https, password))

\* handleResetConfig removes the file, and then what the server has in memory.
ResetInGui(p) == Process(p, Default)

\* resetLocalAppConfiguration, all of it or the login only, also beside a GUI that serves.
ResetInCli(p) ==
    /\ Configuring /\ proc[p].pc = "ready" /\ Alone(p)
    /\ config' \in {Default, WithUser(config, None)} /\ Overtake(p)
    /\ UNCHANGED <<world, proc, doomed, memory, page, cut>> /\ UNCHANGED Stores /\ UNCHANGED Tls

-----------------------------------------------------------------------------
\* Mutant: a store that cannot be read counts as empty.
LoadLenient(s) == IF store[s] = Torn THEN {} ELSE store[s]

\* What Load returns for a store that can be read.
Load(s) == store[s]

\* Add or Remove of an entry, also as part of a move: the store is loaded and changed;
\* one that cannot be read is an error.
Change(p, s, n) ==
    /\ "entries" \in world /\ proc[p].pc \in {"serving", "ready"} /\ Alone(p) /\ Load(s) # Torn
    /\ proc' = [proc EXCEPT ![p].pc = "changing", ![p].store = s, ![p].name = n,
                            ![p].names = IF n \in Load(s) THEN Load(s) \ {n} ELSE Load(s) \cup {n}]
    /\ UNCHANGED <<world, doomed, cut>> /\ UNCHANGED Stores /\ UNCHANGED Configs /\ UNCHANGED Tls

Stored(p) ==
    /\ store' = [store EXCEPT ![proc[p].store] = proc[p].names]
    /\ wanted' = [wanted EXCEPT ![proc[p].store] = (@ \ {proc[p].name}) \cup ({proc[p].name} \cap proc[p].names)]
    /\ proc' = [proc EXCEPT ![p] = Rest(p)]
    /\ UNCHANGED <<world, doomed, cut>> /\ UNCHANGED Configs /\ UNCHANGED Tls

\* profile.Save is os.WriteFile, which truncates the file and writes it; either may fail.
OpenProfiles(p) ==
    /\ proc[p].store = "profiles" /\ Step(p, "changing", "writing")
    /\ store' = [store EXCEPT !["profiles"] = Torn]
    /\ UNCHANGED wanted /\ UNCHANGED Configs /\ UNCHANGED Tls

SaveProfiles(p) == proc[p].pc = "writing" /\ Stored(p)

\* remotes.SaveStore writes a temporary file and renames it.
SaveRemotes(p) == proc[p].pc = "changing" /\ proc[p].store = "remotes" /\ Stored(p)

\* A store that cannot be opened or written; the saved locations may be truncated by then.
FailStore(p) == proc[p].pc \in {"changing", "writing"} /\ GiveUp(p)

-----------------------------------------------------------------------------
Guard(p) ==
    \/ Start(p, "gui") \/ Start(p, "cli") \/ List(p) \/ PassGuard(p) \/ Exit(p) \/ Die(p)
    \/ \E q \in Proc : Terminate(p, q)

Ensure(p) ==
    \/ ReuseCertificate(p) \/ OpenCert(p) \/ WriteCert(p) \/ OpenKey(p) \/ WriteKey(p)
    \/ FailCertificate(p)

Configure(p) ==
    \/ LoadConfig(p) \/ SaveConfig(p) \/ FailSave(p) \/ Serve(p)
    \/ LoadPage(p) \/ PostConfig(p) \/ ResetInGui(p) \/ ResetInCli(p)

\* The commands and handlers that keep saved locations and remote profiles.
KeepProfiles(p) ==
    OpenProfiles(p) \/ SaveProfiles(p) \/ FailStore(p) \/ \E n \in Name : Change(p, "profiles", n)

KeepRemotes(p) == SaveRemotes(p) \/ \E n \in Name : Change(p, "remotes", n)

Next == \E p \in Proc : Guard(p) \/ Ensure(p) \/ Configure(p) \/ KeepProfiles(p) \/ KeepRemotes(p)

Spec == Init /\ [][Next]_vars

-----------------------------------------------------------------------------
\* Every variable keeps its type, what a process has loaded does not outlive the change it
\* was loaded for, and only what runs can be told to stop or fall behind.
TypeOK ==
    /\ world \in Worlds
    /\ \A p \in Proc : /\ proc[p].role \in {"none", "gui", "cli"}
                       /\ proc[p].cfg \in Config /\ proc[p].names \subseteq Name
                       /\ proc[p].pc \in {"none", "serving", "ready"} => proc[p] \in {Gone, Rest(p)}
    /\ doomed \subseteq {p \in Proc : Running(p)} /\ behind \subseteq {p \in Proc : proc[p].up}
    /\ \A s \in Store : store[s] \in (SUBSET Name) \cup {Torn} /\ wanted[s] \subseteq Name
    /\ config \in Config /\ page \in Config \cup {None} /\ memory \in [Proc -> Config]
    /\ cert \in Pair \cup {None, Torn} /\ key \in Pair \cup {None, Torn}
    /\ cut \subseteq {"profiles", "cert", "key"}

\* However many starts run at once and whatever they meet, of two GUIs that serve, or get
\* ready to, one has been sent the signal to stop (processguard.go:14, main.go:575).  It may
\* run on for a while: nobody waits for its end (processguard_unix.go:21).
Past(p) == proc[p].role = "gui" /\ proc[p].pc \notin {"listing", "killing"}

OneInstance == \A p, q \in Proc : Past(p) /\ Past(q) => p = q \/ p \in doomed \/ q \in doomed

\* A store that can be read holds what the completed changes were to leave in it.  The
\* remote profiles can always be read; the saved locations cannot while they are written,
\* nor ever again if a kill or an error broke that off (profile.go:69), and are then not
\* replaced by a shorter list.
StoresKept ==
    /\ store["remotes"] = wanted["remotes"]
    /\ store["profiles"] # wanted["profiles"] =>
         store["profiles"] = Torn /\ ("profiles" \in cut \/ \E p \in Proc : Open(p) = {"profiles"})

\* A GUI that serves has the configuration of the file: what was last saved in it, a
\* password kept without being entered again, or the default after a reset
\* (server.go:1857); but for one that is behind: a reset from the command line, or a GUI
\* that has been told to stop, has changed the file beside it (main.go:514), and its own
\* next save puts back what it has in memory (server.go:1880).
SettingsHold == \A p \in Proc : proc[p].pc = "serving" => memory[p] = config \/ p \in behind

\* A GUI with https serves a certificate with its own key, written now or kept from an
\* earlier start, whichever step of which start was killed or failed, but for one: a key
\* cut short is kept for ever (appconfig.go:156).
TlsUsable == \A p \in Proc : proc[p].up /\ memory[p].https => cert \in Pair /\ (cert = key \/ "key" \in cut)
=============================================================================
