--------------------------- MODULE Settings_proofs ---------------------------
(***************************************************************************)
(* Proofs about Settings, for any number of processes: of two GUIs one is  *)
(* told to stop, the stores hold what completed changes left in them, a    *)
(* GUI serves with the configuration of the file unless another process    *)
(* has changed it, and with a certificate and its own key.                 *)
(***************************************************************************)
EXTENDS Settings, TLAPS

Pcs == {"none", "listing", "killing", "loading", "certifying", "certing", "keyless", "keying",
        "saving", "saved", "serving", "ready", "changing", "writing"}

\* Where only a GUI can be, before it serves and while it changes its configuration.
GuiPcs == Pcs \ {"none", "ready", "changing", "writing"}

ProcRec == [role : {"none", "gui", "cli"}, pc : Pcs, up : BOOLEAN, targets : SUBSET Proc,
            failed : BOOLEAN, cfg : Config, store : Store, name : Name \cup {None},
            names : SUBSET Name, pair : Pair \cup {None}]

ProcOK == proc \in [Proc -> ProcRec]

RestOK ==
    /\ world \in Worlds
    /\ store \in [Store -> (SUBSET Name) \cup {Torn}] /\ wanted \in [Store -> SUBSET Name]
    /\ config \in Config /\ page \in Config \cup {None} /\ memory \in [Proc -> Config]
    /\ cert \in Pair \cup {None, Torn} /\ key \in Pair \cup {None, Torn}
    /\ cut \subseteq {"profiles", "cert", "key"}

\* Only what runs is told to stop, and only what serves falls behind.
Signals == doomed \subseteq {p \in Proc : Running(p)} /\ behind \subseteq {p \in Proc : proc[p].up}

-----------------------------------------------------------------------------
\* What a process at rest has kept of what it did: nothing.
Idle(p) ==
    /\ proc[p].cfg = Default /\ proc[p].store = "profiles" /\ proc[p].name = None
    /\ proc[p].names = {} /\ proc[p].pair = None

Stage(p) ==
    /\ proc[p].role = "none" <=> proc[p].pc = "none"
    /\ proc[p].pc \in GuiPcs => proc[p].role = "gui"
    /\ proc[p].up => proc[p].role = "gui" /\ proc[p].pc \notin {"none", "listing", "killing", "loading", "ready"}
    /\ proc[p].pc # "killing" => proc[p].targets = {} /\ ~proc[p].failed
    /\ p \notin proc[p].targets
    /\ proc[p].pc \in {"none", "serving", "ready"} => Idle(p) /\ (proc[p].up <=> proc[p].pc = "serving")

\* A GUI that has listed the processes.
Listed(p) == proc[p].role = "gui" /\ proc[p].pc # "listing"

\* Of two GUIs that have listed, one is to send the other a signal, or has, or gives up.
OneGoesOn ==
    \A p, q \in Proc : Listed(p) /\ Listed(q) /\ p # q =>
        \/ q \in proc[p].targets \/ p \in proc[q].targets
        \/ proc[p].failed \/ proc[q].failed \/ p \in doomed \/ q \in doomed

\* A process in the middle of a change: no other is.
Busy(p) == ~AtRest(p) /\ proc[p].pc # "loading"

OneChange == \A p, q \in Proc : Busy(p) /\ Busy(q) => p = q

Protocol == ProcOK /\ (\A p \in Proc : Stage(p)) /\ OneGoesOn /\ OneChange

-----------------------------------------------------------------------------
Toggle(set, n) == IF n \in set THEN set \ {n} ELSE set \cup {n}

\* What a process is about to store is what the store is to hold, but for its change.
Changing(p) ==
    /\ proc[p].pc = "changing" => store[proc[p].store] = wanted[proc[p].store]
    /\ proc[p].pc = "writing" => proc[p].store = "profiles"
    /\ proc[p].pc \in {"changing", "writing"}
          => proc[p].names = Toggle(wanted[proc[p].store], proc[p].name)

StoresHold == StoresKept /\ \A p \in Proc : Changing(p)

\* A GUI that is up has in memory what the file holds, but after a save until it goes over,
\* and when it is behind.
Following(p) ==
    /\ proc[p].up /\ proc[p].pc # "saved" => memory[p] = config \/ p \in behind
    /\ proc[p].pc = "saved" => proc[p].cfg = config

ConfigHolds == \A p \in Proc : Following(p)

\* There is a certificate with its key, or with one cut short that is kept for ever.
Done == cert \in Pair /\ (cert = key \/ (key = Torn /\ "key" \in cut))

Writing(p) ==
    /\ proc[p].pc \in {"certing", "keyless", "keying"} => proc[p].pair \in Pair
    /\ proc[p].pc \in {"certing", "keyless"} => key = None
    /\ proc[p].pc \in {"keyless", "keying"} => cert = proc[p].pair
    /\ proc[p].pc = "keying" => key = Torn

\* What says that there is a certificate: the configurations, and https where it is served
\* or about to be saved.
Promises(p) ==
    \/ proc[p].cfg.certified \/ memory[p].certified
    \/ proc[p].pc \in {"saving", "saved"} /\ proc[p].cfg.https
    \/ proc[p].up /\ memory[p].https

Promised ==
    config.certified \/ (page # None /\ page.certified) \/ \E p \in Proc : Promises(p)

TlsHolds ==
    /\ key # None => \/ Done
                     \/ cert \in Pair /\ key = Torn /\ \E p \in Proc : proc[p].pc = "keying"
    /\ Promised => Done
    /\ \A p \in Proc : Writing(p)

All == RestOK /\ Protocol /\ Signals /\ StoresHold /\ ConfigHolds /\ TlsHolds

-----------------------------------------------------------------------------
(* What the steps do to the processes.                                     *)

LEMMA DefaultConfig == Default \in Config
BY DEF Default, Config

\* Only process p changes.
Only(p) == \A q \in Proc \ {p} : proc'[q] = proc[q]

LEMMA GoneFacts ==
    /\ Gone \in ProcRec /\ Gone.role = "none" /\ Gone.pc = "none" /\ ~Gone.up /\ Gone.targets = {}
    /\ ~Gone.failed /\ Gone.cfg = Default /\ Gone.store = "profiles" /\ Gone.name = None
    /\ Gone.names = {} /\ Gone.pair = None
BY DefaultConfig DEF Gone, ProcRec, Pcs, Store

\* One step to another place.
LEMMA StepDoes ==
    ASSUME Protocol, NEW p \in Proc, NEW from, NEW to \in Pcs, Step(p, from, to)
    PROVE  /\ ProcOK' /\ Only(p) /\ proc[p].pc = from /\ UNCHANGED <<world, doomed, cut>>
           /\ proc'[p] = [proc[p] EXCEPT !.pc = to]
BY DEF Step, Protocol, ProcOK, ProcRec, Only

LEMMA ListDoes ==
    ASSUME Protocol, NEW p \in Proc, List(p)
    PROVE  /\ ProcOK' /\ Only(p) /\ proc[p].pc = "listing"
           /\ proc'[p] = [proc[p] EXCEPT !.pc = "killing", !.targets = {q \in Proc \ {p} : Running(q)}]
<1> DEFINE targets == {q \in Proc \ {p} : Running(q)}
<1>1. targets \in SUBSET Proc /\ "killing" \in Pcs /\ proc[p] \in ProcRec
    BY DEF Pcs, Protocol, ProcOK
<1>2. proc' = [proc EXCEPT ![p].pc = "killing", ![p].targets = targets] /\ proc[p].pc = "listing"
    BY DEF List
<1> HIDE DEF targets
<1>3. [proc[p] EXCEPT !.pc = "killing", !.targets = targets] \in ProcRec
    BY <1>1 DEF ProcRec
<1>4. Only(p) /\ proc'[p] = [proc[p] EXCEPT !.pc = "killing", !.targets = targets]
    BY <1>2 DEF Only, Protocol, ProcOK
<1>5. ProcOK'
    BY <1>2, <1>3, <1>4 DEF Only, Protocol, ProcOK
<1> QED BY <1>2, <1>4, <1>5 DEF targets

LEMMA EndDoes ==
    ASSUME Protocol, NEW p \in Proc, End(p)
    PROVE  ProcOK' /\ Only(p) /\ proc'[p] = Gone
BY GoneFacts DEF End, Protocol, ProcOK, Only

LEMMA RestFacts ==
    ASSUME Protocol, NEW p \in Proc
    PROVE  /\ Rest(p) \in ProcRec /\ Rest(p).role = proc[p].role /\ Rest(p).up = proc[p].up
           /\ Rest(p).pc = (IF proc[p].up THEN "serving" ELSE "ready")
           /\ Rest(p).targets = {} /\ ~Rest(p).failed /\ Rest(p).cfg = Default
           /\ Rest(p).store = "profiles" /\ Rest(p).name = None /\ Rest(p).names = {}
           /\ Rest(p).pair = None
<1>1. (IF proc[p].up THEN "serving" ELSE "ready") \in Pcs
    BY DEF Pcs
<1>2. proc[p] \in ProcRec
    BY DEF Protocol, ProcOK
<1> QED BY <1>1, <1>2, GoneFacts DEF Rest, ProcRec

LEMMA RestDoes ==
    ASSUME Protocol, NEW p \in Proc, proc' = [proc EXCEPT ![p] = Rest(p)]
    PROVE  ProcOK' /\ Only(p) /\ proc'[p] = Rest(p)
BY RestFacts DEF Protocol, ProcOK, Only

LEMMA LoadDoes ==
    ASSUME RestOK, Protocol, NEW p \in Proc, LoadConfig(p)
    PROVE  /\ ProcOK' /\ Only(p) /\ proc[p].pc = "loading"
           /\ proc'[p] = [proc[p] EXCEPT !.cfg = config, !.pc = IF config.https THEN "certifying" ELSE "saved"]
<1>1. (IF config.https THEN "certifying" ELSE "saved") \in Pcs /\ config \in Config
    BY DEF Pcs, RestOK
<1> QED BY <1>1 DEF LoadConfig, Protocol, ProcOK, ProcRec, Only

LEMMA ProcessDoes ==
    ASSUME Protocol, NEW p \in Proc, NEW cfg \in Config, Process(p, cfg)
    PROVE  /\ ProcOK' /\ Only(p) /\ proc[p].pc = "serving"
           /\ proc'[p] = [proc[p] EXCEPT !.cfg = cfg, !.pc = IF cfg.https THEN "certifying" ELSE "saving"]
<1>1. (IF cfg.https THEN "certifying" ELSE "saving") \in Pcs
    BY DEF Pcs
<1> QED BY <1>1 DEF Process, Protocol, ProcOK, ProcRec, Only

LEMMA CertifiedDoes ==
    ASSUME Protocol, NEW p \in Proc
    PROVE  /\ ReuseCertificate(p) => /\ ProcOK' /\ Only(p)
                                     /\ proc'[p] = [proc[p] EXCEPT !.pc = "saving", !.cfg = [@ EXCEPT !.certified = TRUE]]
           /\ WriteKey(p) => /\ ProcOK' /\ Only(p)
                             /\ proc'[p] = [proc[p] EXCEPT !.pc = "saving", !.cfg = [@ EXCEPT !.certified = TRUE],
                                                           !.pair = None]
<1> DEFINE cfg == [proc[p].cfg EXCEPT !.certified = TRUE]
<1>1. proc[p] \in ProcRec /\ "saving" \in Pcs
    BY DEF Protocol, ProcOK, Pcs
<1>2. proc[p].cfg \in Config
    BY <1>1 DEF ProcRec
<1>3. cfg \in Config
    BY <1>2 DEF Config
<1>4. ASSUME ReuseCertificate(p)
      PROVE  ProcOK' /\ Only(p) /\ proc'[p] = [proc[p] EXCEPT !.pc = "saving", !.cfg = cfg]
    <2>1. proc' = [proc EXCEPT ![p] = [proc[p] EXCEPT !.pc = "saving", !.cfg = cfg]]
        BY <1>1, <1>4 DEF ReuseCertificate, Protocol, ProcOK, ProcRec
    <2> HIDE DEF cfg
    <2>2. [proc[p] EXCEPT !.pc = "saving", !.cfg = cfg] \in ProcRec
        BY <1>1, <1>3 DEF ProcRec
    <2> QED BY <2>1, <2>2 DEF Protocol, ProcOK, Only
<1>5. ASSUME WriteKey(p)
      PROVE  /\ ProcOK' /\ Only(p)
             /\ proc'[p] = [proc[p] EXCEPT !.pc = "saving", !.cfg = cfg, !.pair = None]
    <2>1. proc' = [proc EXCEPT ![p] = [proc[p] EXCEPT !.pc = "saving", !.cfg = cfg, !.pair = None]]
        BY <1>1, <1>5 DEF WriteKey, Protocol, ProcOK, ProcRec
    <2> HIDE DEF cfg
    <2>2. [proc[p] EXCEPT !.pc = "saving", !.cfg = cfg, !.pair = None] \in ProcRec
        BY <1>1, <1>3 DEF ProcRec
    <2> QED BY <2>1, <2>2 DEF Protocol, ProcOK, Only
<1> QED BY <1>4, <1>5

LEMMA OpenCertDoes ==
    ASSUME Protocol, NEW p \in Proc, OpenCert(p)
    PROVE  /\ ProcOK' /\ Only(p) /\ proc[p].pc = "certifying"
           /\ \E n \in Pair : proc'[p] = [proc[p] EXCEPT !.pc = "certing", !.pair = n]
<1>1. PICK n \in Pair : proc' = [proc EXCEPT ![p].pc = "certing", ![p].pair = n]
    BY DEF OpenCert
<1>2. proc[p] \in ProcRec /\ "certing" \in Pcs /\ proc[p].pc = "certifying"
    BY DEF OpenCert, Pcs, Protocol, ProcOK
<1>3. [proc[p] EXCEPT !.pc = "certing", !.pair = n] \in ProcRec
    BY <1>2 DEF ProcRec
<1>4. Only(p) /\ proc'[p] = [proc[p] EXCEPT !.pc = "certing", !.pair = n]
    BY <1>1 DEF Only, Protocol, ProcOK
<1>5. ProcOK'
    BY <1>1, <1>3, <1>4 DEF Only, Protocol, ProcOK
<1> QED BY <1>2, <1>4, <1>5

LEMMA ServeDoes ==
    ASSUME Protocol, NEW p \in Proc, Serve(p)
    PROVE  /\ ProcOK' /\ Only(p) /\ proc[p].pc = "saved"
           /\ proc'[p] = [Gone EXCEPT !.role = "gui", !.pc = "serving", !.up = TRUE]
<1>1. [Gone EXCEPT !.role = "gui", !.pc = "serving", !.up = TRUE] \in ProcRec
    BY GoneFacts DEF ProcRec, Pcs
<1> QED BY <1>1 DEF Serve, Protocol, ProcOK, Only

LEMMA ChangeDoes ==
    ASSUME RestOK, Protocol, NEW p \in Proc, NEW s \in Store, NEW n \in Name, Change(p, s, n)
    PROVE  /\ ProcOK' /\ Only(p) /\ proc[p].pc \in {"serving", "ready"}
           /\ store[s] # Torn /\ store[s] \subseteq Name
           /\ proc'[p].pc = "changing" /\ proc'[p].store = s /\ proc'[p].name = n
           /\ proc'[p].names = Toggle(store[s], n) /\ proc'[p].up = proc[p].up
           /\ proc'[p].role = proc[p].role /\ proc'[p].targets = proc[p].targets
           /\ proc'[p].failed = proc[p].failed /\ proc'[p].cfg = proc[p].cfg
<1>1. store[s] # Torn /\ store[s] \in SUBSET Name /\ proc[p].pc \in {"serving", "ready"}
    BY DEF Change, Load, RestOK
<1>2. Toggle(store[s], n) \in SUBSET Name
    BY <1>1 DEF Toggle
<1>3. proc' = [proc EXCEPT ![p].pc = "changing", ![p].store = s, ![p].name = n,
                            ![p].names = Toggle(store[s], n)]
    BY DEF Change, Load, Toggle
<1> DEFINE names == Toggle(store[s], n)
           r == [proc[p] EXCEPT !.pc = "changing", !.store = s, !.name = n, !.names = names]
<1>4. proc[p] \in ProcRec /\ "changing" \in Pcs
    BY DEF Protocol, ProcOK, Pcs
<1> HIDE DEF names
<1>5. r \in ProcRec
    BY <1>2, <1>4 DEF ProcRec, names
<1>6. Only(p) /\ proc'[p] = r
    BY <1>3 DEF Only, Protocol, ProcOK, names
<1>7. /\ r.pc = "changing" /\ r.store = s /\ r.name = n /\ r.names = names /\ r.up = proc[p].up
      /\ r.role = proc[p].role /\ r.targets = proc[p].targets /\ r.failed = proc[p].failed
      /\ r.cfg = proc[p].cfg
    BY <1>4 DEF ProcRec
<1> HIDE DEF r
<1>8. proc' \in [Proc -> ProcRec]
    <2>1. proc \in [Proc -> ProcRec] /\ \A q \in Proc : proc'[q] \in ProcRec
        BY <1>5, <1>6 DEF Only, Protocol, ProcOK
    <2>2. proc' = [q \in Proc |-> proc'[q]]
        BY <1>3, <2>1
    <2> QED BY <2>1, <2>2
<1> QED BY <1>1, <1>6, <1>7, <1>8 DEF ProcOK, names

\* One process sends a signal to another.
LEMMA TerminateDoes ==
    ASSUME Protocol, NEW p \in Proc, NEW q \in Proc, Terminate(p, q)
    PROVE  /\ ProcOK' /\ Only(p) /\ proc[p].pc = "killing"
           /\ proc'[p] = [proc[p] EXCEPT !.targets = @ \ {q}, !.failed = @ \/ ~Running(q)]
<1> DEFINE failed == proc[p].failed \/ ~Running(q)
<1>1. proc[p] \in ProcRec /\ proc[p].pc = "killing" /\ failed \in BOOLEAN
    BY DEF Terminate, Protocol, ProcOK, ProcRec
<1>2. proc' = [proc EXCEPT ![p].targets = @ \ {q}, ![p].failed = failed]
    BY DEF Terminate, Protocol, ProcOK
<1> HIDE DEF failed
<1>3. [proc[p] EXCEPT !.targets = @ \ {q}, !.failed = failed] \in ProcRec
    BY <1>1 DEF ProcRec
<1>4. Only(p) /\ proc'[p] = [proc[p] EXCEPT !.targets = @ \ {q}, !.failed = failed]
    BY <1>2 DEF Only, Protocol, ProcOK
<1>5. ProcOK'
    BY <1>2, <1>3, <1>4 DEF Only, Protocol, ProcOK
<1> QED BY <1>1, <1>4, <1>5 DEF failed

\* A process starts: it is in no list of processes any more.
LEMMA StartDoes ==
    ASSUME Protocol, NEW p \in Proc, NEW role \in {"gui", "cli"}, Start(p, role)
    PROVE  /\ ProcOK' /\ ~Running(p)
           /\ proc'[p] = [Gone EXCEPT !.role = role, !.pc = IF role = "gui" THEN "listing" ELSE "ready"]
           /\ \A q \in Proc \ {p} : proc'[q] = IF p \in proc[q].targets
                                               THEN [proc[q] EXCEPT !.targets = @ \ {p}, !.failed = TRUE]
                                               ELSE proc[q]
<1>1. [Gone EXCEPT !.role = role, !.pc = IF role = "gui" THEN "listing" ELSE "ready"] \in ProcRec
    <2>1. (IF role = "gui" THEN "listing" ELSE "ready") \in Pcs
        BY DEF Pcs
    <2> QED BY <2>1, GoneFacts DEF ProcRec
<1>2. ASSUME NEW q \in Proc PROVE [proc[q] EXCEPT !.targets = @ \ {p}, !.failed = TRUE] \in ProcRec
    <2>1. proc[q] \in ProcRec
        BY DEF Protocol, ProcOK
    <2> QED BY <2>1 DEF ProcRec
<1> QED BY <1>1, <1>2 DEF Start, Protocol, ProcOK

-----------------------------------------------------------------------------
(* Who goes on and who is in the middle of a change.                       *)

\* A step of one process that lists nothing new, and begins a change only alone.
LEMMA OnlyStep ==
    ASSUME Protocol, NEW p \in Proc, ProcOK', Only(p), Stage(p)',
           Listed(p)' => /\ Listed(p) /\ proc'[p].targets = proc[p].targets
                         /\ proc'[p].failed = proc[p].failed /\ (p \in doomed => p \in doomed'),
           doomed \ {p} \subseteq doomed',
           Busy(p)' => Busy(p) \/ Alone(p)
    PROVE  Protocol'
<1>1. \A q \in Proc : Stage(q)'
    BY DEF Protocol, Stage, Idle, Only
<1>2. OneGoesOn'
    BY DEF Protocol, OneGoesOn, Listed, Only
<1>3. OneChange'
    BY DEF Protocol, OneChange, Busy, AtRest, Alone, Only
<1> QED BY <1>1, <1>2, <1>3 DEF Protocol

LEMMA ListProtocol == ASSUME Protocol, NEW p \in Proc, List(p) PROVE Protocol'
<1>1. /\ ProcOK' /\ Only(p) /\ proc[p].pc = "listing" /\ proc[p] \in ProcRec
      /\ proc'[p] = [proc[p] EXCEPT !.pc = "killing", !.targets = {q \in Proc \ {p} : Running(q)}]
    BY ListDoes DEF Protocol, ProcOK
<1>2. /\ proc'[p].pc = "killing" /\ proc'[p].targets = {q \in Proc \ {p} : Running(q)}
      /\ proc'[p].role = proc[p].role /\ proc'[p].up = proc[p].up
    BY <1>1 DEF ProcRec
<1>3. \A q \in Proc : Stage(q)'
    <2>1. Stage(p) /\ p \notin proc'[p].targets
        BY <1>2 DEF Protocol
    <2>2. Stage(p)'
        BY <1>1, <1>2, <2>1 DEF Stage, GuiPcs, Pcs
    <2>3. \A q \in Proc \ {p} : proc'[q] = proc[q]
        BY <1>1 DEF Only
    <2>4. \A q \in Proc \ {p} : Stage(q)'
        BY <2>3 DEF Protocol, Stage, Idle
    <2> QED BY <2>2, <2>4
<1>4. OneGoesOn'
    <2>1. \A q \in Proc \ {p} : proc'[q] = proc[q] /\ (Listed(q)' => q \in proc'[p].targets /\ Listed(q))
        BY <1>1, <1>2 DEF Only, Listed, Running
    <2> QED BY <2>1 DEF Protocol, OneGoesOn, List
<1>5. OneChange'
    <2>1. \A q \in Proc : Busy(q)' => Busy(q)
        BY <1>1, <1>2 DEF Busy, AtRest, Only
    <2> QED BY <2>1 DEF Protocol, OneChange
<1> QED BY <1>1, <1>3, <1>4, <1>5 DEF Protocol

\* The processes after a start, a kill, and a step of the guard.
LEMMA StartFields ==
    ASSUME Protocol, NEW p \in Proc, NEW role \in {"gui", "cli"}, Start(p, role)
    PROVE  /\ proc[p].pc = "none"
           /\ proc'[p].role = role /\ proc'[p].pc = (IF role = "gui" THEN "listing" ELSE "ready")
           /\ ~proc'[p].up /\ proc'[p].targets = {} /\ ~proc'[p].failed /\ proc'[p].cfg = Default
           /\ proc'[p].store = "profiles" /\ proc'[p].name = None /\ proc'[p].names = {}
           /\ proc'[p].pair = None
           /\ \A q \in Proc \ {p} :
                /\ proc'[q].pc = proc[q].pc /\ proc'[q].role = proc[q].role /\ proc'[q].up = proc[q].up
                /\ proc'[q].targets = proc[q].targets \ {p} /\ proc'[q].cfg = proc[q].cfg
                /\ p \in proc[q].targets => proc'[q].failed /\ proc[q].pc = "killing"
                /\ proc[q].failed => proc'[q].failed
                /\ p \notin proc[q].targets => proc'[q] = proc[q]
<1>1. /\ ~Running(p)
      /\ proc'[p] = [Gone EXCEPT !.role = role, !.pc = IF role = "gui" THEN "listing" ELSE "ready"]
      /\ \A q \in Proc \ {p} : proc'[q] = IF p \in proc[q].targets
                                          THEN [proc[q] EXCEPT !.targets = @ \ {p}, !.failed = TRUE]
                                          ELSE proc[q]
    BY StartDoes
<1>2. /\ proc'[p].role = role /\ proc'[p].pc = (IF role = "gui" THEN "listing" ELSE "ready")
      /\ ~proc'[p].up /\ proc'[p].targets = {} /\ ~proc'[p].failed /\ proc'[p].cfg = Default
      /\ proc'[p].store = "profiles" /\ proc'[p].name = None /\ proc'[p].names = {}
      /\ proc'[p].pair = None
    BY <1>1, GoneFacts DEF ProcRec
<1>3. ASSUME NEW q \in Proc \ {p}
      PROVE  /\ proc'[q].pc = proc[q].pc /\ proc'[q].role = proc[q].role /\ proc'[q].up = proc[q].up
             /\ proc'[q].targets = proc[q].targets \ {p} /\ proc'[q].cfg = proc[q].cfg
             /\ p \in proc[q].targets => proc'[q].failed /\ proc[q].pc = "killing"
             /\ proc[q].failed => proc'[q].failed
             /\ p \notin proc[q].targets => proc'[q] = proc[q]
    <2>1. proc[q] \in ProcRec /\ Stage(q)
        BY DEF Protocol, ProcOK
    <2>2. proc'[q] = IF p \in proc[q].targets THEN [proc[q] EXCEPT !.targets = @ \ {p}, !.failed = TRUE]
                                              ELSE proc[q]
        BY <1>1
    <2>3. CASE p \in proc[q].targets
        BY <2>1, <2>2, <2>3 DEF ProcRec, Stage
    <2>4. CASE p \notin proc[q].targets
        BY <2>1, <2>2, <2>4 DEF ProcRec
    <2> QED BY <2>3, <2>4
<1>4. proc[p].pc = "none"
    <2>1. Stage(p)
        BY DEF Protocol
    <2> QED BY <1>1, <2>1 DEF Stage, Running
<1> QED BY <1>2, <1>3, <1>4

LEMMA TerminateFields ==
    ASSUME Protocol, NEW p \in Proc, NEW q \in Proc, Terminate(p, q)
    PROVE  /\ ProcOK' /\ Only(p) /\ proc[p].pc = "killing"
           /\ proc'[p].pc = "killing" /\ proc'[p].targets = proc[p].targets \ {q}
           /\ proc'[p].role = proc[p].role /\ proc'[p].up = proc[p].up /\ proc'[p].cfg = proc[p].cfg
           /\ proc[p].failed \/ ~Running(q) => proc'[p].failed
           /\ Running(q) => doomed' = doomed \cup {q}
           /\ ~Running(q) => doomed' = doomed
           /\ UNCHANGED <<world, cut, store, wanted, config, memory, page, behind, cert, key>>
<1>1. /\ ProcOK' /\ Only(p) /\ proc[p].pc = "killing" /\ proc[p] \in ProcRec
      /\ proc'[p] = [proc[p] EXCEPT !.targets = @ \ {q}, !.failed = @ \/ ~Running(q)]
    BY TerminateDoes DEF Protocol, ProcOK
<1>2. /\ proc'[p].pc = "killing" /\ proc'[p].targets = proc[p].targets \ {q}
      /\ proc'[p].role = proc[p].role /\ proc'[p].up = proc[p].up /\ proc'[p].cfg = proc[p].cfg
    BY <1>1 DEF ProcRec
<1>3. proc[p].failed \/ ~Running(q) => proc'[p].failed
    BY <1>1 DEF ProcRec
<1> QED BY <1>1, <1>2, <1>3 DEF Terminate, Stores, Configs, Tls

LEMMA GuardFields ==
    ASSUME Protocol, NEW p \in Proc, List(p) \/ PassGuard(p)
    PROVE  /\ Only(p) /\ AtRest(p) /\ proc'[p].pc \in {"killing", "loading"} /\ ~proc[p].up
           /\ ~proc'[p].up /\ proc'[p].cfg = proc[p].cfg /\ proc'[p].role = proc[p].role
           /\ UNCHANGED <<world, doomed, cut, store, wanted, config, memory, page, behind, cert, key>>
<1>1. proc[p] \in ProcRec /\ Stage(p)
    BY DEF Protocol, ProcOK
<1>2. CASE List(p)
    <2>1. /\ Only(p) /\ proc[p].pc = "listing"
          /\ proc'[p] = [proc[p] EXCEPT !.pc = "killing", !.targets = {q \in Proc \ {p} : Running(q)}]
        BY <1>2, ListDoes
    <2>2. /\ proc'[p].pc = "killing" /\ proc'[p].up = proc[p].up /\ proc'[p].cfg = proc[p].cfg
          /\ proc'[p].role = proc[p].role
        BY <1>1, <2>1 DEF ProcRec
    <2> QED BY <1>1, <1>2, <2>1, <2>2 DEF List, AtRest, Stage, Stores, Configs, Tls
<1>3. CASE PassGuard(p)
    <2>1. /\ Only(p) /\ proc[p].pc = "killing" /\ proc'[p] = [proc[p] EXCEPT !.pc = "loading"]
          /\ UNCHANGED <<world, doomed, cut>>
        BY <1>3, StepDoes DEF PassGuard, Pcs
    <2>2. /\ proc'[p].pc = "loading" /\ proc'[p].up = proc[p].up /\ proc'[p].cfg = proc[p].cfg
          /\ proc'[p].role = proc[p].role
        BY <1>1, <2>1 DEF ProcRec
    <2> QED BY <1>1, <1>3, <2>1, <2>2 DEF PassGuard, AtRest, Stage, Stores, Configs, Tls
<1> QED BY <1>2, <1>3

\* A process ends, or goes back to rest after an error.
Leaves(p) == Exit(p) \/ Die(p) \/ FailCertificate(p) \/ FailSave(p) \/ FailStore(p)

\* The files stay; what was open is noted; who goes on keeps what he has.
Leaving(p) ==
    /\ UNCHANGED <<world, store, wanted, config, page, cert, key>>
    /\ Open(p) \subseteq cut' /\ cut \subseteq cut' /\ cut' \subseteq cut \cup Open(p)
    /\ doomed \ {p} \subseteq doomed' /\ doomed' \subseteq doomed
    /\ behind \ {p} \subseteq behind' /\ behind' \subseteq behind
    /\ memory' \in [Proc -> Config] /\ \A q \in Proc \ {p} : memory'[q] = memory[q]
    /\ \/ /\ proc' = [proc EXCEPT ![p] = Gone] /\ memory'[p] = Default /\ p \notin doomed' \cup behind'
       \/ /\ proc' = [proc EXCEPT ![p] = Rest(p)] /\ UNCHANGED <<memory, doomed, behind>>
          /\ proc[p].up /\ proc[p].pc \notin {"saved", "serving"}

LEMMA LeaveLeaves == ASSUME RestOK, NEW p \in Proc, Leaves(p) PROVE Leaving(p)
<1>1. memory \in [Proc -> Config]
    BY DEF RestOK
<1>2. ASSUME End(p), (UNCHANGED cut /\ AtRest(p)) \/ cut' = cut \cup Open(p) PROVE Leaving(p)
    <2>1. AtRest(p) => Open(p) = {}
        BY DEF AtRest, Open
    <2>2. Open(p) \subseteq cut' /\ cut \subseteq cut' /\ cut' \subseteq cut \cup Open(p)
        BY <1>2, <2>1
    <2>3. /\ memory' \in [Proc -> Config] /\ memory'[p] = Default
          /\ \A q \in Proc \ {p} : memory'[q] = memory[q]
        BY <1>1, <1>2, DefaultConfig DEF End
    <2> QED BY <1>2, <2>2, <2>3 DEF End, Leaving, Stores, Tls
<1>3. ASSUME GiveUp(p), proc[p].pc \notin {"saved", "serving"} PROVE Leaving(p)
    <2>1. CASE ~proc[p].up /\ End(p)
        BY <1>2, <1>3, <2>1 DEF GiveUp
    <2>2. CASE ~(~proc[p].up /\ End(p))
        BY <1>1, <1>3, <2>2 DEF GiveUp, Leaving, Stores, Configs, Tls
    <2> QED BY <2>1, <2>2
<1> QED BY <1>2, <1>3 DEF Leaves, Exit, Die, FailCertificate, FailSave, FailStore

LEMMA LeaveDoes ==
    ASSUME Protocol, NEW p \in Proc, Leaving(p)
    PROVE  /\ ProcOK' /\ Only(p) /\ proc'[p].pc \in {"none", "serving"} /\ proc'[p].cfg = Default
           /\ proc'[p].up => /\ proc[p].up /\ UNCHANGED <<memory, behind>>
                             /\ proc[p].pc \notin {"saved", "serving"}
<1>1. CASE proc' = [proc EXCEPT ![p] = Gone]
    <2>1. ProcOK' /\ Only(p) /\ proc'[p] = Gone
        BY <1>1, GoneFacts DEF Protocol, ProcOK, Only
    <2> QED BY <2>1, GoneFacts
<1>2. CASE /\ proc' = [proc EXCEPT ![p] = Rest(p)] /\ UNCHANGED <<memory, doomed, behind>>
           /\ proc[p].up /\ proc[p].pc \notin {"saved", "serving"}
    <2>1. ProcOK' /\ Only(p) /\ proc'[p] = Rest(p)
        BY <1>2, RestDoes
    <2> QED BY <1>2, <2>1, RestFacts
<1> QED BY <1>1, <1>2 DEF Leaving

LEMMA TerminateProtocol ==
    ASSUME Protocol, NEW p \in Proc, NEW q \in Proc, Terminate(p, q) PROVE Protocol'
<1>1. /\ ProcOK' /\ Only(p) /\ proc[p].pc = "killing"
      /\ proc'[p].pc = "killing" /\ proc'[p].targets = proc[p].targets \ {q}
      /\ proc'[p].role = proc[p].role /\ proc'[p].up = proc[p].up
      /\ proc[p].failed \/ ~Running(q) => proc'[p].failed
      /\ doomed \subseteq doomed' /\ (Running(q) => q \in doomed')
    BY TerminateFields
<1>2. \A x \in Proc : Stage(x)'
    BY <1>1 DEF Protocol, Stage, Idle, GuiPcs, Pcs, Only
<1>3. OneGoesOn'
    <2>1. \A x \in Proc : Listed(x)' => Listed(x)
        BY <1>1 DEF Listed, Only
    <2>2. \A x, y \in Proc : y \in proc[x].targets => \/ y \in proc'[x].targets \/ y \in doomed'
                                                    \/ proc'[x].failed
        BY <1>1 DEF Only
    <2>3. \A x \in Proc : proc[x].failed => proc'[x].failed
        BY <1>1 DEF Only
    <2> QED BY <1>1, <2>1, <2>2, <2>3 DEF Protocol, OneGoesOn
<1>4. OneChange'
    <2>1. \A x \in Proc : Busy(x)' => Busy(x)
        BY <1>1 DEF Busy, AtRest, Only
    <2> QED BY <2>1 DEF Protocol, OneChange
<1> QED BY <1>1, <1>2, <1>3, <1>4 DEF Protocol

LEMMA StartProtocol ==
    ASSUME Protocol, NEW p \in Proc, NEW role \in {"gui", "cli"}, Start(p, role) PROVE Protocol'
<1>1. ProcOK'
    BY StartDoes
<1>2. /\ proc'[p].role = role /\ proc'[p].pc = (IF role = "gui" THEN "listing" ELSE "ready")
      /\ ~proc'[p].up /\ proc'[p].targets = {} /\ ~proc'[p].failed /\ proc'[p].cfg = Default
      /\ proc'[p].store = "profiles" /\ proc'[p].name = None /\ proc'[p].names = {}
      /\ proc'[p].pair = None
    BY StartFields
<1>3. \A q \in Proc \ {p} :
          /\ proc'[q].pc = proc[q].pc /\ proc'[q].role = proc[q].role /\ proc'[q].up = proc[q].up
          /\ proc'[q].targets = proc[q].targets \ {p}
          /\ p \in proc[q].targets => proc'[q].failed /\ proc[q].pc = "killing"
          /\ proc[q].failed => proc'[q].failed
          /\ p \notin proc[q].targets => proc'[q] = proc[q]
    BY StartFields
<1>4. Stage(p)'
    BY <1>2 DEF Stage, Idle, GuiPcs, Pcs
<1>5. ASSUME NEW q \in Proc \ {p} PROVE Stage(q)'
    <2>1. Stage(q)
        BY DEF Protocol
    <2> QED BY <1>3, <2>1 DEF Stage, Idle, GuiPcs
<1>6. OneGoesOn'
    <2>1. \A q \in Proc : Listed(q)' => q # p /\ Listed(q)
        BY <1>2, <1>3 DEF Listed
    <2> SUFFICES ASSUME NEW q \in Proc \ {p}, NEW r \in Proc \ {p}, Listed(q), Listed(r), q # r
                 PROVE  (\/ r \in proc[q].targets \/ q \in proc[r].targets
                         \/ proc[q].failed \/ proc[r].failed \/ q \in doomed \/ r \in doomed)'
        BY <2>1 DEF OneGoesOn
    <2>2. \/ r \in proc[q].targets \/ q \in proc[r].targets \/ proc[q].failed \/ proc[r].failed
          \/ q \in doomed \/ r \in doomed
        BY DEF Protocol, OneGoesOn
    <2>3. UNCHANGED doomed
        BY DEF Start
    <2> QED BY <1>3, <2>2, <2>3
<1>7. OneChange'
    <2>1. \A q \in Proc : Busy(q)' => q # p /\ Busy(q)
        BY <1>2, <1>3 DEF Busy, AtRest
    <2> QED BY <2>1 DEF Protocol, OneChange
<1> QED BY <1>1, <1>4, <1>5, <1>6, <1>7 DEF Protocol

\* Back to rest: a GUI that is up, and has not listed now, or a command.
LEMMA RestProtocol ==
    ASSUME Protocol, NEW p \in Proc, proc' = [proc EXCEPT ![p] = Rest(p)], UNCHANGED doomed,
           proc[p].up \/ proc[p].pc \in {"changing", "writing"}
    PROVE  Protocol'
<1>1. ProcOK' /\ Only(p) /\ proc'[p] = Rest(p)
    BY RestDoes
<1>2. Stage(p) /\ proc[p] \in ProcRec
    BY DEF Protocol, ProcOK
<1>3. Stage(p)'
    BY <1>1, <1>2, RestFacts DEF Stage, Idle, GuiPcs, Pcs
<1>4. ~Busy(p)' /\ (Listed(p)' => Listed(p))
    BY <1>1, <1>2, RestFacts DEF Listed, Busy, AtRest, Stage
<1>5. proc'[p].targets = {} /\ ~proc'[p].failed /\ proc[p].targets = {} /\ ~proc[p].failed
    BY <1>1, <1>2, RestFacts DEF Stage
<1>6. proc'[p].failed = proc[p].failed
    <2>1. proc'[p].failed \in BOOLEAN /\ proc[p].failed \in BOOLEAN
        BY <1>1, <1>2 DEF ProcOK, ProcRec
    <2> QED BY <1>5, <2>1
<1> QED BY <1>1, <1>3, <1>4, <1>5, <1>6, OnlyStep

LEMMA LeaveProtocol == ASSUME RestOK, Protocol, NEW p \in Proc, Leaves(p) PROVE Protocol'
<1>1. Leaving(p)
    BY LeaveLeaves
<1>2. CASE proc' = [proc EXCEPT ![p] = Gone]
    <2>1. ProcOK' /\ Only(p) /\ proc'[p] = Gone
        BY <1>2, GoneFacts DEF Protocol, ProcOK, Only
    <2>2. Stage(p)' /\ ~Listed(p)' /\ ~Busy(p)'
        BY <2>1, GoneFacts DEF Stage, Idle, Listed, Busy, AtRest, GuiPcs
    <2> QED BY <1>1, <2>1, <2>2, OnlyStep DEF Leaving
<1>3. CASE proc' = [proc EXCEPT ![p] = Rest(p)] /\ UNCHANGED doomed /\ proc[p].up
    BY <1>3, RestProtocol
<1> QED BY <1>1, <1>2, <1>3 DEF Leaving

\* A step of a GUI that keeps its list, from a stage behind the guard to another.
LEMMA OnwardsProtocol ==
    ASSUME Protocol, NEW p \in Proc, ProcOK', Only(p), UNCHANGED doomed,
           proc'[p].role = proc[p].role, proc'[p].up = proc[p].up,
           proc'[p].targets = proc[p].targets, proc'[p].failed = proc[p].failed,
           proc[p].pc \in GuiPcs \ {"listing"}, proc'[p].pc \in GuiPcs \ {"listing", "killing", "serving"},
           proc[p].pc = "killing" => proc[p].targets = {} /\ ~proc[p].failed,
           proc'[p].pc = "loading" => ~proc[p].up,
           Busy(p) \/ Alone(p) \/ proc'[p].pc = "loading"
    PROVE  Protocol'
<1>1. Stage(p)
    BY DEF Protocol
<1>2. Stage(p)'
    BY <1>1 DEF Stage, GuiPcs, Pcs
<1>3. Listed(p)' => Listed(p)
    BY <1>1 DEF Listed
<1>4. Busy(p)' => Busy(p) \/ Alone(p)
    BY DEF Busy
<1> QED BY <1>2, <1>3, <1>4, OnlyStep

LEMMA GuardProtocol == ASSUME Protocol, NEW p \in Proc, PassGuard(p) PROVE Protocol'
<1>1. /\ ProcOK' /\ Only(p) /\ proc[p].pc = "killing" /\ proc'[p] = [proc[p] EXCEPT !.pc = "loading"]
      /\ proc[p].targets = {} /\ ~proc[p].failed /\ proc[p] \in ProcRec /\ UNCHANGED doomed
    BY StepDoes DEF PassGuard, Pcs, Protocol, ProcOK
<1>2. /\ proc'[p].role = proc[p].role /\ proc'[p].up = proc[p].up
      /\ proc'[p].targets = proc[p].targets /\ proc'[p].failed = proc[p].failed
      /\ proc'[p].pc = "loading"
    BY <1>1 DEF ProcRec
<1>3. ~proc[p].up
    BY <1>1 DEF Protocol, Stage
<1> QED BY <1>1, <1>2, <1>3, OnwardsProtocol DEF GuiPcs, Pcs

\* Process p goes on to another stage with the same list of processes.
Goes(p, from, to) ==
    /\ ProcOK' /\ Only(p) /\ UNCHANGED doomed /\ proc[p].pc = from /\ proc'[p].pc = to
    /\ proc'[p].role = proc[p].role /\ proc'[p].up = proc[p].up
    /\ proc'[p].targets = proc[p].targets /\ proc'[p].failed = proc[p].failed

KeepsCfg(p) == proc'[p].cfg = proc[p].cfg /\ proc'[p].pair = proc[p].pair

\* The steps of a GUI that starts, or saves its configuration.
Advance(p) ==
    \/ LoadConfig(p) \/ ReuseCertificate(p) \/ OpenCert(p) \/ WriteCert(p) \/ OpenKey(p)
    \/ WriteKey(p) \/ SaveConfig(p)

LEMMA AdvanceDoes ==
    ASSUME RestOK, Protocol, NEW p \in Proc
    PROVE  /\ LoadConfig(p) => /\ Goes(p, "loading", IF config.https THEN "certifying" ELSE "saved")
                               /\ proc'[p].cfg = config
           /\ ReuseCertificate(p) => /\ Goes(p, "certifying", "saving")
                                     /\ proc'[p].cfg = [proc[p].cfg EXCEPT !.certified = TRUE]
           /\ OpenCert(p) => /\ Goes(p, "certifying", "certing")
                             /\ proc'[p].cfg = proc[p].cfg /\ proc'[p].pair \in Pair
           /\ WriteCert(p) => Goes(p, "certing", "keyless") /\ KeepsCfg(p)
           /\ OpenKey(p) => Goes(p, "keyless", "keying") /\ KeepsCfg(p)
           /\ WriteKey(p) => /\ Goes(p, "keying", "saving")
                             /\ proc'[p].cfg = [proc[p].cfg EXCEPT !.certified = TRUE]
           /\ SaveConfig(p) => Goes(p, "saving", "saved") /\ KeepsCfg(p)
<1>1. proc[p] \in ProcRec
    BY DEF Protocol, ProcOK
<1>2. ASSUME NEW from, NEW to \in Pcs, Step(p, from, to) PROVE Goes(p, from, to) /\ KeepsCfg(p)
    <2>1. /\ ProcOK' /\ Only(p) /\ proc[p].pc = from /\ proc'[p] = [proc[p] EXCEPT !.pc = to]
          /\ UNCHANGED doomed
        BY <1>2, StepDoes
    <2> QED BY <1>1, <2>1 DEF Goes, KeepsCfg, ProcRec
<1>3. LoadConfig(p) => /\ Goes(p, "loading", IF config.https THEN "certifying" ELSE "saved")
                       /\ proc'[p].cfg = config
    BY <1>1, LoadDoes DEF Goes, ProcRec, LoadConfig
<1>4. ReuseCertificate(p) => /\ Goes(p, "certifying", "saving")
                             /\ proc'[p].cfg = [proc[p].cfg EXCEPT !.certified = TRUE]
    BY <1>1, CertifiedDoes DEF Goes, ProcRec, ReuseCertificate
<1>5. WriteKey(p) => /\ Goes(p, "keying", "saving")
                     /\ proc'[p].cfg = [proc[p].cfg EXCEPT !.certified = TRUE]
    <2> SUFFICES ASSUME WriteKey(p)
                 PROVE  Goes(p, "keying", "saving") /\ proc'[p].cfg = [proc[p].cfg EXCEPT !.certified = TRUE]
        OBVIOUS
    <2>1. /\ ProcOK' /\ Only(p) /\ proc[p].pc = "keying" /\ UNCHANGED doomed
          /\ proc'[p] = [proc[p] EXCEPT !.pc = "saving", !.cfg = [@ EXCEPT !.certified = TRUE], !.pair = None]
        BY CertifiedDoes DEF WriteKey
    <2> QED BY <1>1, <2>1 DEF Goes, ProcRec
<1>6. OpenCert(p) => /\ Goes(p, "certifying", "certing")
                     /\ proc'[p].cfg = proc[p].cfg /\ proc'[p].pair \in Pair
    <2> SUFFICES ASSUME OpenCert(p)
                 PROVE  /\ Goes(p, "certifying", "certing")
                        /\ proc'[p].cfg = proc[p].cfg /\ proc'[p].pair \in Pair
        OBVIOUS
    <2>1. UNCHANGED doomed
        BY DEF OpenCert
    <2>2. /\ ProcOK' /\ Only(p) /\ proc[p].pc = "certifying"
          /\ \E n \in Pair : proc'[p] = [proc[p] EXCEPT !.pc = "certing", !.pair = n]
        BY OpenCertDoes
    <2> QED BY <1>1, <2>1, <2>2 DEF Goes, ProcRec
<1>7. "keyless" \in Pcs /\ "keying" \in Pcs /\ "saved" \in Pcs
    BY DEF Pcs
<1> QED BY <1>2, <1>3, <1>4, <1>5, <1>6, <1>7 DEF WriteCert, OpenKey, SaveConfig

LEMMA AdvanceProtocol == ASSUME RestOK, Protocol, NEW p \in Proc, Advance(p) PROVE Protocol'
<1>1. PICK from \in Pcs, to \in Pcs : /\ Goes(p, from, to) /\ from \in GuiPcs \ {"listing", "killing"}
                                      /\ to \in GuiPcs \ {"listing", "killing", "loading", "serving"}
                                      /\ from = "loading" => Alone(p)
    BY AdvanceDoes DEF Advance, GuiPcs, Pcs, LoadConfig
<1>2. Busy(p) \/ Alone(p) \/ from = "serving"
    BY <1>1 DEF Busy, AtRest, Goes, GuiPcs, Pcs
<1>3. from # "serving"
    BY AdvanceDoes, <1>1 DEF Advance, Goes
<1> QED BY <1>1, <1>2, <1>3, OnwardsProtocol DEF Goes

LEMMA ServeProtocol == ASSUME Protocol, NEW p \in Proc, Serve(p) PROVE Protocol'
<1>1. Stage(p) /\ proc[p] \in ProcRec
    BY DEF Protocol, ProcOK
<1>2. /\ ProcOK' /\ Only(p) /\ proc[p].pc = "saved" /\ UNCHANGED doomed
      /\ proc'[p] = [Gone EXCEPT !.role = "gui", !.pc = "serving", !.up = TRUE]
    BY ServeDoes DEF Serve
<1>3. /\ proc'[p].role = "gui" /\ proc'[p].pc = "serving" /\ proc'[p].up /\ proc'[p].targets = {}
      /\ ~proc'[p].failed /\ proc'[p].cfg = Default /\ proc'[p].store = "profiles"
      /\ proc'[p].name = None /\ proc'[p].names = {} /\ proc'[p].pair = None
    BY <1>2, GoneFacts DEF ProcRec
<1>4. Stage(p)'
    BY <1>3 DEF Stage, Idle, GuiPcs, Pcs
<1>5. Listed(p) /\ proc[p].targets = {} /\ ~proc[p].failed
    BY <1>1, <1>2 DEF Listed, Stage, GuiPcs, Pcs
<1>6. proc'[p].failed = proc[p].failed
    <2>1. proc'[p].failed \in BOOLEAN /\ proc[p].failed \in BOOLEAN
        BY <1>1, <1>2 DEF ProcOK, ProcRec
    <2> QED BY <1>3, <1>5, <2>1
<1>7. ~Busy(p)'
    BY <1>3 DEF Busy, AtRest
<1> QED BY <1>2, <1>3, <1>4, <1>5, <1>6, <1>7, OnlyStep

\* What comes from the page is a configuration.
LEMMA ConfigTypes ==
    /\ \A c \in Config, user \in User \cup {None} : WithUser(c, user) \in Config
    /\ \A previous \in Config, user \in User \cup {None}, https \in BOOLEAN, password \in Hash \cup {None} :
          page \in Config => Posted(previous, user, https, password) \in Config
<1>1. ASSUME NEW c \in Config, NEW user \in User \cup {None} PROVE WithUser(c, user) \in Config
    BY DEF WithUser, Config
<1>2. ASSUME NEW previous \in Config, NEW user \in User \cup {None}, NEW https \in BOOLEAN,
             NEW password \in Hash \cup {None}, page \in Config
      PROVE  Posted(previous, user, https, password) \in Config
    <2> DEFINE shown == WithUser([page EXCEPT !.https = https], user)
               hash == IF password # None THEN password
                       ELSE IF shown.hash = None /\ previous.user = user THEN previous.hash ELSE shown.hash
    <2>1. [page EXCEPT !.https = https] \in Config
        BY <1>2 DEF Config
    <2>2. shown \in Config
        BY <1>1, <2>1
    <2>3. Posted(previous, user, https, password) = [shown EXCEPT !.hash = hash]
        BY DEF Posted
    <2> HIDE DEF shown
    <2>4. hash \in Hash \cup {None}
        BY <2>2 DEF Config
    <2> HIDE DEF hash
    <2> QED BY <2>2, <2>3, <2>4 DEF Config
<1> QED BY <1>1, <1>2

LEMMA ProcessProtocol ==
    ASSUME Protocol, NEW p \in Proc, NEW cfg \in Config, Process(p, cfg)
    PROVE  /\ Protocol' /\ Goes(p, "serving", IF cfg.https THEN "certifying" ELSE "saving")
           /\ proc'[p].cfg = cfg /\ Alone(p)
<1>1. /\ ProcOK' /\ Only(p) /\ proc[p].pc = "serving" /\ proc[p] \in ProcRec /\ UNCHANGED doomed
      /\ proc'[p] = [proc[p] EXCEPT !.cfg = cfg, !.pc = IF cfg.https THEN "certifying" ELSE "saving"]
    BY ProcessDoes DEF Process, Protocol, ProcOK
<1>2. Goes(p, "serving", IF cfg.https THEN "certifying" ELSE "saving") /\ proc'[p].cfg = cfg
    BY <1>1 DEF Goes, ProcRec
<1>3. Alone(p)
    BY DEF Process
<1>4. proc'[p].pc \in {"certifying", "saving"}
    BY <1>2 DEF Goes
<1> QED BY <1>1, <1>2, <1>3, <1>4, OnwardsProtocol DEF Goes, GuiPcs, Pcs

LEMMA ConfigureStepDoes ==
    ASSUME RestOK, Protocol, NEW p \in Proc, PostConfig(p) \/ ResetInGui(p)
    PROVE  \E cfg \in Config : Process(p, cfg)
           /\ (cfg.certified => page # None /\ page.certified)
<1>1. CASE ResetInGui(p)
    <2>1. Default \in Config /\ ~Default.certified
        BY DefaultConfig DEF Default
    <2> QED BY <1>1, <2>1 DEF ResetInGui
<1>2. CASE PostConfig(p)
    <2>1. page \in Config /\ memory[p] \in Config
        BY <1>2 DEF PostConfig, RestOK
    <2>2. PICK user \in User \cup {None}, https \in BOOLEAN, password \in Hash \cup {None} :
              Process(p, Posted(memory[p], user, https, password))
        BY <1>2 DEF PostConfig
    <2>3. Posted(memory[p], user, https, password) \in Config
        BY <2>1, ConfigTypes
    <2>4. Posted(memory[p], user, https, password).certified = page.certified
        <3> DEFINE shown == WithUser([page EXCEPT !.https = https], user)
                   hash == IF password # None THEN password
                           ELSE IF shown.hash = None /\ memory[p].user = user THEN memory[p].hash ELSE shown.hash
        <3>1. [page EXCEPT !.https = https] \in Config /\ [page EXCEPT !.https = https].certified = page.certified
            BY <2>1 DEF Config
        <3>2. shown \in Config /\ shown.certified = page.certified
            BY <3>1, ConfigTypes DEF WithUser, Config
        <3>3. Posted(memory[p], user, https, password) = [shown EXCEPT !.hash = hash]
            BY DEF Posted
        <3> HIDE DEF shown, hash
        <3> QED BY <3>2, <3>3 DEF Config
    <2> QED BY <1>2, <2>2, <2>3, <2>4 DEF PostConfig
<1> QED BY <1>1, <1>2

LEMMA ChangeProtocol ==
    ASSUME RestOK, Protocol, NEW p \in Proc, NEW s \in Store, NEW n \in Name, Change(p, s, n)
    PROVE  /\ Protocol' /\ ProcOK' /\ Only(p) /\ proc'[p].pc = "changing" /\ proc'[p].store = s
           /\ proc'[p].name = n /\ proc'[p].names = Toggle(store[s], n) /\ store[s] # Torn
           /\ proc'[p].up = proc[p].up /\ proc[p].pc \in {"serving", "ready"} /\ Alone(p)
           /\ proc'[p].cfg = proc[p].cfg /\ proc'[p].role = proc[p].role
<1>1. /\ ProcOK' /\ Only(p) /\ proc[p].pc \in {"serving", "ready"} /\ store[s] # Torn
      /\ proc'[p].pc = "changing" /\ proc'[p].store = s /\ proc'[p].name = n
      /\ proc'[p].names = Toggle(store[s], n) /\ proc'[p].up = proc[p].up
      /\ proc'[p].role = proc[p].role /\ proc'[p].targets = proc[p].targets
      /\ proc'[p].failed = proc[p].failed /\ proc'[p].cfg = proc[p].cfg
    BY ChangeDoes
<1>3. Stage(p) /\ Alone(p) /\ UNCHANGED doomed
    BY DEF Protocol, Change
<1>4. Stage(p)'
    BY <1>1, <1>3 DEF Stage, GuiPcs, Pcs
<1>5. Listed(p)' => Listed(p)
    BY <1>1 DEF Listed
<1>6. Protocol'
    BY <1>1, <1>3, <1>4, <1>5, OnlyStep
<1> QED BY <1>1, <1>3, <1>6

LEMMA OpenProfilesProtocol ==
    ASSUME Protocol, NEW p \in Proc, OpenProfiles(p)
    PROVE  /\ Protocol' /\ ProcOK' /\ Only(p) /\ proc[p].pc = "changing" /\ proc'[p].pc = "writing"
           /\ proc'[p].store = proc[p].store /\ proc'[p].name = proc[p].name
           /\ proc'[p].names = proc[p].names /\ proc'[p].up = proc[p].up
           /\ proc[p].store = "profiles" /\ UNCHANGED cut /\ proc'[p].cfg = proc[p].cfg
           /\ proc'[p].role = proc[p].role
<1>1. /\ ProcOK' /\ Only(p) /\ proc[p].pc = "changing" /\ proc[p] \in ProcRec
      /\ proc'[p] = [proc[p] EXCEPT !.pc = "writing"] /\ UNCHANGED <<doomed, cut>>
    BY StepDoes DEF OpenProfiles, Pcs, Protocol, ProcOK
<1>2. /\ proc'[p].pc = "writing" /\ proc'[p].store = proc[p].store /\ proc'[p].name = proc[p].name
      /\ proc'[p].names = proc[p].names /\ proc'[p].up = proc[p].up
      /\ proc'[p].role = proc[p].role /\ proc'[p].targets = proc[p].targets
      /\ proc'[p].failed = proc[p].failed /\ proc'[p].cfg = proc[p].cfg
    BY <1>1 DEF ProcRec
<1>3. Stage(p)
    BY DEF Protocol
<1>4. Stage(p)'
    BY <1>1, <1>2, <1>3 DEF Stage, GuiPcs, Pcs
<1>5. (Listed(p)' => Listed(p)) /\ Busy(p)
    BY <1>1, <1>2 DEF Listed, Busy, AtRest
<1>6. Protocol'
    BY <1>1, <1>2, <1>4, <1>5, OnlyStep
<1> QED BY <1>1, <1>2, <1>6 DEF OpenProfiles

LEMMA StoredProtocol ==
    ASSUME Protocol, NEW p \in Proc, SaveProfiles(p) \/ SaveRemotes(p)
    PROVE  /\ Protocol' /\ ProcOK' /\ Only(p) /\ proc'[p] = Rest(p) /\ proc[p].pc \in {"changing", "writing"}
<1>1. proc' = [proc EXCEPT ![p] = Rest(p)] /\ proc[p].pc \in {"changing", "writing"} /\ UNCHANGED doomed
    BY DEF SaveProfiles, SaveRemotes, Stored
<1> QED BY <1>1, RestDoes, RestProtocol

-----------------------------------------------------------------------------
LEMMA StepCases ==
    ASSUME [Next]_vars
    PROVE  \/ UNCHANGED vars
           \/ \E p \in Proc :
                \/ \E role \in {"gui", "cli"} : Start(p, role)
                \/ List(p) \/ PassGuard(p) \/ Leaves(p) \/ \E q \in Proc : Terminate(p, q)
                \/ Advance(p) \/ Serve(p) \/ LoadPage(p)
                \/ PostConfig(p) \/ ResetInGui(p) \/ ResetInCli(p)
                \/ OpenProfiles(p) \/ SaveProfiles(p) \/ SaveRemotes(p)
                \/ \E s \in Store, n \in Name : Change(p, s, n)
BY DEF Next, Guard, Ensure, Configure, KeepProfiles, KeepRemotes, Advance, Leaves, Store

LEMMA SameProtocol == Protocol /\ UNCHANGED <<proc, doomed>> => Protocol'
BY DEF Protocol, ProcOK, Stage, Idle, OneGoesOn, Listed, OneChange, Busy, AtRest

LEMMA StepProtocol == RestOK /\ Protocol /\ [Next]_vars => Protocol'
<1> SUFFICES ASSUME RestOK, Protocol, [Next]_vars PROVE Protocol'
    OBVIOUS
<1>1. CASE UNCHANGED vars
    BY <1>1, SameProtocol DEF vars
<1>2. ASSUME NEW p \in Proc, LoadPage(p) \/ ResetInCli(p) PROVE Protocol'
    BY <1>2, SameProtocol DEF LoadPage, ResetInCli
<1>3. ASSUME NEW p \in Proc, PostConfig(p) \/ ResetInGui(p) PROVE Protocol'
    BY <1>3, ConfigureStepDoes, ProcessProtocol
<1> QED BY <1>1, <1>2, <1>3, StepCases, StartProtocol, ListProtocol, GuardProtocol, TerminateProtocol,
           LeaveProtocol, AdvanceProtocol, ServeProtocol, OpenProfilesProtocol, StoredProtocol, ChangeProtocol

\* The rest of the types.
LEMMA StepRest == RestOK /\ Protocol /\ [Next]_vars => RestOK'
<1> SUFFICES ASSUME RestOK, Protocol, [Next]_vars PROVE RestOK'
    OBVIOUS
<1>1. CASE UNCHANGED vars
    BY <1>1 DEF RestOK, vars
<1>2. ASSUME NEW p \in Proc, \/ \E role \in {"gui", "cli"} : Start(p, role)
                             \/ List(p) \/ PassGuard(p) \/ \E q \in Proc : Terminate(p, q)
                             \/ \E s \in Store, n \in Name : Change(p, s, n)
      PROVE  RestOK'
    BY <1>2 DEF RestOK, Start, List, PassGuard, Terminate, Step, Change, Stores, Configs, Tls
<1>3. ASSUME NEW p \in Proc, PostConfig(p) \/ ResetInGui(p) PROVE RestOK'
    BY <1>3, ConfigureStepDoes DEF RestOK, Process, Stores, Configs, Tls
<1>4. ASSUME NEW p \in Proc, Leaves(p) PROVE RestOK'
    <2>1. Open(p) \subseteq {"profiles", "cert", "key"}
        BY DEF Open
    <2>2. Leaving(p)
        BY <1>4, LeaveLeaves
    <2> QED BY <2>1, <2>2 DEF RestOK, Leaving
<1>5. ASSUME NEW p \in Proc, Advance(p) PROVE RestOK'
    <2>1. /\ UNCHANGED <<world, store, wanted, memory, page, cut>>
          /\ proc[p].cfg \in Config /\ proc[p].pair \in Pair \cup {None}
        BY <1>5 DEF Advance, LoadConfig, ReuseCertificate, OpenCert, WriteCert, OpenKey, WriteKey,
                    SaveConfig, Step, Stores, Configs, Protocol, ProcOK, ProcRec
    <2>2. /\ config' \in {config, proc[p].cfg} /\ cert' \in {cert, Torn, proc[p].pair}
          /\ key' \in {key, Torn, proc[p].pair}
        BY <1>5 DEF Advance, LoadConfig, ReuseCertificate, OpenCert, WriteCert, OpenKey, WriteKey,
                    SaveConfig, Configs, Tls
    <2> QED BY <2>1, <2>2 DEF RestOK
<1>6. ASSUME NEW p \in Proc, Serve(p) \/ LoadPage(p) \/ ResetInCli(p) PROVE RestOK'
    <2>1. proc[p].cfg \in Config
        BY DEF Protocol, ProcOK, ProcRec
    <2>2. WithUser(config, None) \in Config
        BY ConfigTypes DEF RestOK
    <2>3. CASE Serve(p)
        BY <2>1, <2>3 DEF Serve, RestOK, Stores, Tls
    <2>4. CASE LoadPage(p)
        BY <2>4 DEF LoadPage, RestOK, Stores, Tls
    <2>5. CASE ResetInCli(p)
        BY <2>2, <2>5, DefaultConfig DEF ResetInCli, RestOK, Stores, Tls
    <2> QED BY <1>6, <2>3, <2>4, <2>5
<1>7. ASSUME NEW p \in Proc, OpenProfiles(p) \/ SaveProfiles(p) \/ SaveRemotes(p) PROVE RestOK'
    <2>1. proc[p].names \subseteq Name /\ proc[p].store \in Store
        BY DEF Protocol, ProcOK, ProcRec
    <2>2. UNCHANGED <<world, config, memory, page, cert, key, cut>>
        BY <1>7 DEF OpenProfiles, SaveProfiles, SaveRemotes, Stored, Step, Configs, Tls
    <2>3. CASE OpenProfiles(p)
        BY <2>2, <2>3 DEF OpenProfiles, RestOK, Store
    <2>4. CASE SaveProfiles(p) \/ SaveRemotes(p)
        <3>1. wanted[proc[p].store] \subseteq Name
            BY <2>1 DEF RestOK
        <3>2. (wanted[proc[p].store] \ {proc[p].name}) \cup ({proc[p].name} \cap proc[p].names) \subseteq Name
            BY <2>1, <3>1
        <3> QED BY <2>1, <2>2, <2>4, <3>2 DEF SaveProfiles, SaveRemotes, Stored, RestOK
    <2> QED BY <1>7, <2>3, <2>4
<1> QED BY <1>1, <1>2, <1>3, <1>4, <1>5, <1>6, <1>7, StepCases

\* Who is told to stop runs, and who is behind serves.
LEMMA StepSignals == RestOK /\ Protocol /\ Signals /\ [Next]_vars => Signals'
<1> SUFFICES ASSUME RestOK, Protocol, Signals, [Next]_vars PROVE Signals'
    OBVIOUS
<1>1. CASE UNCHANGED vars
    BY <1>1 DEF Signals, Running, vars
<1>2. ASSUME NEW p \in Proc, Only(p), doomed' \subseteq doomed, behind' \subseteq behind,
             Running(p)' \/ p \notin doomed', proc'[p].up \/ p \notin behind'
      PROVE  Signals'
    BY <1>2 DEF Signals, Running, Only
<1>3. ASSUME NEW p \in Proc, NEW role \in {"gui", "cli"}, Start(p, role) PROVE Signals'
    <2>1. /\ Running(p)' /\ p \notin behind /\ UNCHANGED <<doomed, behind>>
          /\ \A q \in Proc \ {p} : proc'[q].role = proc[q].role /\ proc'[q].up = proc[q].up
        <3>1. proc[p].pc = "none" /\ proc'[p].role = role /\ Stage(p)
            BY <1>3, StartFields DEF Protocol
        <3> QED BY <1>3, <3>1, StartFields DEF Running, Stage, Signals, Start, Configs
    <2> QED BY <2>1 DEF Signals, Running
<1>4. ASSUME NEW p \in Proc, List(p) \/ PassGuard(p) PROVE Signals'
    <2>1. /\ Only(p) /\ proc'[p].role = proc[p].role /\ ~proc[p].up /\ UNCHANGED <<doomed, behind>>
        BY <1>4, GuardFields
    <2> QED BY <1>2, <2>1 DEF Signals, Running
<1>5. ASSUME NEW p \in Proc, NEW q \in Proc, Terminate(p, q) PROVE Signals'
    <2>1. /\ Only(p) /\ proc'[p].role = proc[p].role /\ proc'[p].up = proc[p].up /\ UNCHANGED behind
          /\ doomed' \subseteq doomed \cup {x \in Proc : Running(x)}
        BY <1>5, TerminateFields
    <2> QED BY <2>1 DEF Signals, Running, Only
<1>6. ASSUME NEW p \in Proc, Leaves(p) PROVE Signals'
    <2>1. Leaving(p) /\ Only(p) /\ ProcOK'
        BY <1>6, LeaveLeaves, LeaveDoes
    <2>2. CASE p \notin doomed' \cup behind'
        BY <1>2, <2>1, <2>2 DEF Leaving
    <2>3. CASE proc' = [proc EXCEPT ![p] = Rest(p)] /\ UNCHANGED <<doomed, behind>> /\ proc[p].up
        <3>1. proc'[p] = Rest(p)
            BY <2>3, RestDoes
        <3>2. proc'[p].role = proc[p].role /\ proc'[p].up = proc[p].up
            BY <3>1, RestFacts
        <3> QED BY <1>2, <2>1, <2>3, <3>2 DEF Signals, Running
    <2> QED BY <2>1, <2>2, <2>3 DEF Leaving
<1>7. ASSUME NEW p \in Proc, Advance(p) PROVE Signals'
    <2>1. /\ Only(p) /\ proc'[p].role = proc[p].role /\ proc'[p].up = proc[p].up /\ UNCHANGED doomed
        BY <1>7, AdvanceDoes DEF Advance, Goes
    <2>2. UNCHANGED behind \/ behind' = {q \in Proc \ {p} : proc[q].up}
        BY <1>7 DEF Advance, LoadConfig, ReuseCertificate, OpenCert, WriteCert, OpenKey, WriteKey,
                    SaveConfig, Overtake, Configs
    <2> QED BY <2>1, <2>2 DEF Signals, Running, Only
<1>8. ASSUME NEW p \in Proc, Serve(p) PROVE Signals'
    <2>1. /\ Only(p) /\ proc'[p].role = "gui" /\ proc'[p].up /\ UNCHANGED <<doomed, behind>>
        <3>1. Only(p) /\ proc'[p] = [Gone EXCEPT !.role = "gui", !.pc = "serving", !.up = TRUE]
            BY <1>8, ServeDoes
        <3>2. proc'[p].role = "gui" /\ proc'[p].up
            BY <3>1, GoneFacts DEF ProcRec
        <3>3. UNCHANGED <<doomed, behind>>
            BY <1>8 DEF Serve
        <3> QED BY <3>1, <3>2, <3>3
    <2> QED BY <1>2, <2>1 DEF Running
<1>9. ASSUME NEW p \in Proc, LoadPage(p) \/ ResetInCli(p) PROVE Signals'
    <2>1. /\ UNCHANGED <<proc, doomed>>
          /\ UNCHANGED behind \/ behind' = {q \in Proc \ {p} : proc[q].up}
        BY <1>9 DEF LoadPage, ResetInCli, Overtake
    <2> QED BY <2>1 DEF Signals, Running
<1>10. ASSUME NEW p \in Proc, PostConfig(p) \/ ResetInGui(p) PROVE Signals'
    <2>1. PICK cfg \in Config : Process(p, cfg)
        BY <1>10, ConfigureStepDoes
    <2>2. /\ Only(p) /\ proc'[p].role = proc[p].role /\ proc'[p].up = proc[p].up
          /\ UNCHANGED <<doomed, behind>>
        BY <2>1, ProcessProtocol DEF Goes, Process, Configs
    <2> QED BY <1>2, <2>2 DEF Signals, Running
<1>11. ASSUME NEW p \in Proc, \/ OpenProfiles(p) \/ SaveProfiles(p) \/ SaveRemotes(p)
                              \/ \E s \in Store, n \in Name : Change(p, s, n)
       PROVE  Signals'
    <2>1. UNCHANGED <<doomed, behind>>
        BY <1>11 DEF OpenProfiles, SaveProfiles, SaveRemotes, Stored, Change, Step, Configs
    <2>2. Only(p) /\ proc'[p].up = proc[p].up /\ proc'[p].role = proc[p].role
        <3>1. CASE OpenProfiles(p)
            BY <3>1, OpenProfilesProtocol
        <3>2. CASE SaveProfiles(p) \/ SaveRemotes(p)
            BY <3>2, StoredProtocol, RestFacts
        <3>3. CASE \E s \in Store, n \in Name : Change(p, s, n)
            BY <3>3, ChangeProtocol
        <3> QED BY <1>11, <3>1, <3>2, <3>3
    <2> QED BY <1>2, <2>1, <2>2 DEF Signals, Running
<1> QED BY <1>1, <1>3, <1>4, <1>5, <1>6, <1>7, <1>8, <1>9, <1>10, <1>11, StepCases

-----------------------------------------------------------------------------
(* The stores.                                                             *)

LEMMA OpenFacts ==
    ASSUME NEW p \in Proc
    PROVE  /\ Open(p) = {"profiles"} <=> proc[p].pc = "writing"
           /\ (Open(p) = {"profiles"} <=> proc[p].pc = "writing")'
           /\ proc[p].pc = "keying" => Open(p) = {"key"}
BY DEF Open

\* What a step leaves alone.
LEMMA SameStores ==
    ASSUME StoresHold, UNCHANGED <<store, wanted>>, cut \subseteq cut',
           \A q \in Proc : proc'[q].pc \in {"changing", "writing"} =>
               /\ proc'[q].pc = proc[q].pc /\ proc'[q].store = proc[q].store
               /\ proc'[q].name = proc[q].name /\ proc'[q].names = proc[q].names,
           \A q \in Proc : proc[q].pc = "writing" => proc'[q].pc = "writing" \/ "profiles" \in cut'
    PROVE  StoresHold'
<1>1. StoresKept'
    BY OpenFacts DEF StoresHold, StoresKept
<1>2. ASSUME NEW q \in Proc PROVE Changing(q)'
    BY DEF StoresHold, Changing, Toggle
<1> QED BY <1>1, <1>2 DEF StoresHold

LEMMA OtherStores ==
    ASSUME StoresHold, NEW p \in Proc, Only(p), UNCHANGED <<store, wanted, cut>>,
           proc[p].pc # "writing", proc'[p].pc \notin {"changing", "writing"}
    PROVE  StoresHold'
BY SameStores DEF Only

LEMMA ChangeStores ==
    ASSUME RestOK, Protocol, StoresHold, NEW p \in Proc, NEW s \in Store, NEW n \in Name, Change(p, s, n)
    PROVE  StoresHold'
<1>1. /\ Only(p) /\ proc'[p].pc = "changing" /\ proc'[p].store = s /\ proc'[p].name = n
      /\ proc'[p].names = Toggle(store[s], n) /\ store[s] # Torn /\ proc[p].pc \in {"serving", "ready"}
    BY ChangeProtocol
<1>2. UNCHANGED <<store, wanted, cut>>
    BY DEF Change, Stores
<1>3. store[s] = wanted[s]
    BY <1>1 DEF StoresHold, StoresKept, Store
<1>4. Changing(p)'
    BY <1>1, <1>2, <1>3 DEF Changing
<1>5. \A q \in Proc \ {p} : Changing(q)'
    BY <1>1, <1>2 DEF StoresHold, Changing, Only
<1>6. StoresKept'
    BY <1>1, <1>2, OpenFacts DEF StoresHold, StoresKept, Only
<1> QED BY <1>4, <1>5, <1>6 DEF StoresHold

\* While one process writes, no other is about to.
LEMMA OneWriter ==
    ASSUME Protocol, NEW p \in Proc, proc[p].pc \in {"changing", "writing"}, Only(p)
    PROVE  \A q \in Proc \ {p} : /\ proc[q].pc \notin {"changing", "writing"}
                                 /\ proc'[q].pc \notin {"changing", "writing"}
BY DEF Protocol, OneChange, Busy, AtRest, Only

LEMMA WriteStores ==
    ASSUME RestOK, Protocol, StoresHold, NEW p \in Proc,
           OpenProfiles(p) \/ SaveProfiles(p) \/ SaveRemotes(p)
    PROVE  StoresHold'
<1>1. store \in [Store -> (SUBSET Name) \cup {Torn}] /\ wanted \in [Store -> SUBSET Name]
    BY DEF RestOK
<1>2. Only(p) /\ proc[p].pc \in {"changing", "writing"} /\ proc[p].store \in Store
    BY OpenProfilesProtocol, StoredProtocol DEF Protocol, ProcOK, ProcRec
<1>3. \A q \in Proc \ {p} : /\ proc[q].pc \notin {"changing", "writing"}
                            /\ proc'[q].pc \notin {"changing", "writing"}
    BY <1>2, OneWriter
<1>4. \A q \in Proc \ {p} : Changing(q)'
    BY <1>3 DEF Changing
<1>5. proc[p].names = Toggle(wanted[proc[p].store], proc[p].name)
    BY <1>2 DEF StoresHold, Changing
<1>6. CASE OpenProfiles(p)
    <2>1. /\ proc'[p].pc = "writing" /\ proc'[p].store = "profiles" /\ proc'[p].name = proc[p].name
          /\ proc'[p].names = proc[p].names /\ proc[p].store = "profiles"
        BY <1>6, OpenProfilesProtocol
    <2>2. store' = [store EXCEPT !["profiles"] = Torn] /\ UNCHANGED wanted
        BY <1>6 DEF OpenProfiles
    <2>3. store'["profiles"] = Torn /\ store'["remotes"] = store["remotes"]
        BY <1>1, <2>2 DEF Store
    <2>4. StoresKept'
        BY <2>1, <2>2, <2>3, OpenFacts DEF StoresHold, StoresKept
    <2>5. Changing(p)'
        BY <1>5, <2>1, <2>2 DEF Changing
    <2> QED BY <1>4, <2>4, <2>5 DEF StoresHold
<1>7. CASE SaveProfiles(p) \/ SaveRemotes(p)
    <2> DEFINE s == proc[p].store
               new == (wanted[s] \ {proc[p].name}) \cup ({proc[p].name} \cap proc[p].names)
    <2>1. /\ store' = [store EXCEPT ![s] = proc[p].names] /\ wanted' = [wanted EXCEPT ![s] = new]
          /\ UNCHANGED cut /\ s \in Store
        BY <1>1, <1>2, <1>7 DEF SaveProfiles, SaveRemotes, Stored
    <2>2. new = proc[p].names
        BY <1>5 DEF Toggle
    <2>3. proc'[p].pc \in {"serving", "ready"}
        BY <1>7, StoredProtocol, RestFacts
    <2> HIDE DEF new
    <2>4. /\ store'[s] = wanted'[s]
          /\ \A t \in Store \ {s} : store'[t] = store[t] /\ wanted'[t] = wanted[t]
        BY <1>1, <2>1, <2>2
    <2>5. StoresKept'
        <3>1. CASE s = "profiles"
            BY <2>4, <3>1 DEF StoresHold, StoresKept, Store
        <3>2. CASE s = "remotes"
            <4>1. ~\E q \in Proc : proc[q].pc = "writing"
                BY <1>3, <3>2 DEF StoresHold, Changing
            <4>2. store["profiles"] # wanted["profiles"] => store["profiles"] = Torn /\ "profiles" \in cut
                BY <4>1, OpenFacts DEF StoresHold, StoresKept
            <4> QED BY <2>1, <2>4, <3>2, <4>2 DEF StoresHold, StoresKept, Store
        <3> QED BY <2>1, <3>1, <3>2 DEF Store
    <2>6. Changing(p)'
        BY <2>3 DEF Changing
    <2> QED BY <1>4, <2>5, <2>6 DEF StoresHold
<1> QED BY <1>6, <1>7

LEMMA StepStores == RestOK /\ Protocol /\ StoresHold /\ [Next]_vars => StoresHold'
<1> SUFFICES ASSUME RestOK, Protocol, StoresHold, [Next]_vars PROVE StoresHold'
    OBVIOUS
<1>1. CASE UNCHANGED vars
    BY <1>1, SameStores DEF vars
<1>2. ASSUME NEW p \in Proc, LoadPage(p) \/ ResetInCli(p) PROVE StoresHold'
    BY <1>2, SameStores DEF LoadPage, ResetInCli, Stores
<1>3. ASSUME NEW p \in Proc, List(p) \/ PassGuard(p) PROVE StoresHold'
    BY <1>3, GuardFields, OtherStores DEF AtRest
<1>4. ASSUME NEW p \in Proc, NEW role \in {"gui", "cli"}, Start(p, role) PROVE StoresHold'
    <2>1. proc'[p].pc \notin {"changing", "writing"} /\ proc[p].pc # "writing"
        BY <1>4, StartFields
    <2>2. \A q \in Proc \ {p} : \/ proc'[q] = proc[q]
                                \/ proc[q].pc = "killing" /\ proc'[q].pc = "killing"
        BY <1>4, StartFields
    <2> QED BY <1>4, <2>1, <2>2, SameStores DEF Start, Stores
<1>5. ASSUME NEW p \in Proc, NEW q \in Proc, Terminate(p, q) PROVE StoresHold'
    BY <1>5, TerminateFields, OtherStores
<1>6. ASSUME NEW p \in Proc, Advance(p) PROVE StoresHold'
    <2>1. UNCHANGED <<store, wanted, cut>>
        BY <1>6 DEF Advance, LoadConfig, ReuseCertificate, OpenCert, WriteCert, OpenKey, WriteKey,
                    SaveConfig, Step, Stores
    <2>2. Only(p) /\ proc[p].pc # "writing" /\ proc'[p].pc \notin {"changing", "writing"}
        BY <1>6, AdvanceDoes DEF Advance, Goes
    <2> QED BY <2>1, <2>2, OtherStores
<1>7. ASSUME NEW p \in Proc, Serve(p) PROVE StoresHold'
    <2>1. UNCHANGED <<store, wanted, cut>> /\ proc[p].pc # "writing"
        BY <1>7 DEF Serve, Stores
    <2>2. Only(p) /\ proc'[p].pc \notin {"changing", "writing"}
        BY <1>7, ServeDoes, GoneFacts DEF ProcRec
    <2> QED BY <2>1, <2>2, OtherStores
<1>8. ASSUME NEW p \in Proc, PostConfig(p) \/ ResetInGui(p) PROVE StoresHold'
    <2>1. PICK cfg \in Config : Process(p, cfg)
        BY <1>8, ConfigureStepDoes
    <2>2. UNCHANGED <<store, wanted, cut>>
        BY <2>1 DEF Process, Stores
    <2>3. Only(p) /\ proc[p].pc # "writing" /\ proc'[p].pc \notin {"changing", "writing"}
        BY <2>1, ProcessProtocol DEF Goes
    <2> QED BY <2>2, <2>3, OtherStores
<1>9. ASSUME NEW p \in Proc, Leaves(p) PROVE StoresHold'
    <2>1. Leaving(p)
        BY <1>9, LeaveLeaves
    <2>2. Only(p) /\ proc'[p].pc \in {"none", "serving"}
        BY <2>1, LeaveDoes
    <2>3. UNCHANGED <<store, wanted>> /\ cut \subseteq cut' /\ Open(p) \subseteq cut'
        BY <2>1 DEF Leaving
    <2>4. proc[p].pc = "writing" => "profiles" \in cut'
        BY <2>3, OpenFacts
    <2> QED BY <2>2, <2>3, <2>4, SameStores DEF Only
<1> QED BY <1>1, <1>2, <1>3, <1>4, <1>5, <1>6, <1>7, <1>8, <1>9, StepCases, ChangeStores, WriteStores

-----------------------------------------------------------------------------
(* The configuration.                                                      *)

LEMMA OneGui == Protocol => OneInstance
<1> SUFFICES ASSUME Protocol, NEW p \in Proc, NEW q \in Proc, Past(p), Past(q), p # q
             PROVE  p \in doomed \/ q \in doomed
    BY DEF OneInstance
<1>1. \A x \in {p, q} : proc[x].targets = {} /\ ~proc[x].failed /\ Listed(x)
    BY DEF Protocol, Stage, Past, Listed
<1> QED BY <1>1 DEF Protocol, OneGoesOn

LEMMA SameConfig ==
    ASSUME ConfigHolds, UNCHANGED config,
           \A q \in Proc :
             /\ proc'[q].up /\ proc'[q].pc # "saved"
                  => /\ proc[q].up /\ proc[q].pc # "saved" /\ memory'[q] = memory[q]
                     /\ q \in behind => q \in behind'
             /\ proc'[q].pc = "saved" => proc[q].pc = "saved" /\ proc'[q].cfg = proc[q].cfg
    PROVE  ConfigHolds'
BY DEF ConfigHolds, Following

\* A step of one process that keeps the configuration.
LEMMA OtherConfig ==
    ASSUME ConfigHolds, UNCHANGED config, NEW p \in Proc, Only(p),
           \A q \in Proc \ {p} : memory'[q] = memory[q], behind \ {p} \subseteq behind',
           proc'[p].up => /\ proc[p].up /\ proc[p].pc # "saved" /\ memory'[p] = memory[p]
                          /\ p \in behind => p \in behind',
           proc'[p].pc # "saved"
    PROVE  ConfigHolds'
BY SameConfig DEF Only

LEMMA StepConfig == RestOK /\ Protocol /\ ConfigHolds /\ [Next]_vars => ConfigHolds'
<1> SUFFICES ASSUME RestOK, Protocol, ConfigHolds, [Next]_vars PROVE ConfigHolds'
    OBVIOUS
<1>0. memory \in [Proc -> Config]
    BY DEF RestOK
<1>1. CASE UNCHANGED vars
    BY <1>1, SameConfig DEF vars
<1>2. ASSUME NEW p \in Proc, LoadPage(p) PROVE ConfigHolds'
    BY <1>2, SameConfig DEF LoadPage
<1>3. ASSUME NEW p \in Proc, List(p) \/ PassGuard(p) PROVE ConfigHolds'
    <2>1. /\ Only(p) /\ ~proc'[p].up /\ proc'[p].pc # "saved" /\ UNCHANGED <<config, memory, behind>>
        BY <1>3, GuardFields
    <2> QED BY <2>1, OtherConfig
<1>4. ASSUME NEW p \in Proc, NEW role \in {"gui", "cli"}, Start(p, role) PROVE ConfigHolds'
    <2>1. /\ ~proc'[p].up /\ proc'[p].pc # "saved"
          /\ \A q \in Proc \ {p} : proc'[q].pc = proc[q].pc /\ proc'[q].up = proc[q].up /\ proc'[q].cfg = proc[q].cfg
        BY <1>4, StartFields
    <2> QED BY <1>4, <2>1, SameConfig DEF Start, Configs
<1>5. ASSUME NEW p \in Proc, NEW q \in Proc, Terminate(p, q) PROVE ConfigHolds'
    <2>1. /\ Only(p) /\ proc[p].pc = "killing" /\ proc'[p].pc = "killing" /\ proc'[p].up = proc[p].up
          /\ UNCHANGED <<config, memory, behind>>
        BY <1>5, TerminateFields
    <2> QED BY <2>1, OtherConfig
<1>6. ASSUME NEW p \in Proc, Advance(p) PROVE ConfigHolds'
    <2>1. UNCHANGED memory
        BY <1>6 DEF Advance, LoadConfig, ReuseCertificate, OpenCert, WriteCert, OpenKey, WriteKey,
                    SaveConfig, Configs
    <2>2. CASE LoadConfig(p)
        <3>1. /\ Only(p) /\ ~proc'[p].up /\ proc'[p].cfg = config /\ UNCHANGED <<config, behind>>
            BY <2>2, AdvanceDoes DEF Goes, LoadConfig, Configs, Protocol, Stage
        <3>2. Following(p)'
            BY <3>1 DEF Following
        <3> QED BY <2>1, <3>1, <3>2 DEF ConfigHolds, Following, Only
    <2>3. CASE SaveConfig(p)
        <3>1. /\ Only(p) /\ proc[p].pc = "saving" /\ proc'[p].pc = "saved" /\ proc'[p].cfg = proc[p].cfg
              /\ config' = proc[p].cfg /\ behind' = {q \in Proc \ {p} : proc[q].up}
            BY <2>3, AdvanceDoes DEF Goes, KeepsCfg, SaveConfig, Overtake
        <3>2. ASSUME NEW q \in Proc \ {p} PROVE Following(q)'
            <4>1. Busy(p) /\ (proc[q].pc = "saved" => Busy(q))
                BY <3>1 DEF Busy, AtRest
            <4>2. proc[q].pc # "saved"
                BY <4>1 DEF Protocol, OneChange
            <4> QED BY <3>1, <4>2 DEF Following, Only
        <3>3. Following(p)'
            BY <3>1 DEF Following
        <3> QED BY <3>2, <3>3 DEF ConfigHolds
    <2>4. CASE Advance(p) /\ ~LoadConfig(p) /\ ~SaveConfig(p)
        <3>1. UNCHANGED <<config, behind>>
            BY <2>4 DEF Advance, ReuseCertificate, OpenCert, WriteCert, OpenKey, WriteKey, Configs
        <3>2. Only(p) /\ proc'[p].up = proc[p].up /\ proc[p].pc # "saved" /\ proc'[p].pc # "saved"
            BY <2>4, AdvanceDoes DEF Advance, Goes
        <3> QED BY <2>1, <3>1, <3>2, OtherConfig
    <2> QED BY <1>6, <2>2, <2>3, <2>4
<1>7. ASSUME NEW p \in Proc, Leaves(p) PROVE ConfigHolds'
    <2>1. Leaving(p)
        BY <1>7, LeaveLeaves
    <2>2. /\ Only(p) /\ proc'[p].pc \in {"none", "serving"}
          /\ proc'[p].up => proc[p].up /\ UNCHANGED <<memory, behind>> /\ proc[p].pc \notin {"saved", "serving"}
        BY <2>1, LeaveDoes
    <2>3. /\ UNCHANGED config /\ \A q \in Proc \ {p} : memory'[q] = memory[q]
          /\ behind \ {p} \subseteq behind'
        BY <2>1 DEF Leaving
    <2> QED BY <2>2, <2>3, OtherConfig
<1>8. ASSUME NEW p \in Proc, Serve(p) PROVE ConfigHolds'
    <2>1. /\ Only(p) /\ proc[p].pc = "saved" /\ proc'[p].pc = "serving"
        BY <1>8, ServeDoes, GoneFacts DEF ProcRec
    <2>2. /\ UNCHANGED <<config, behind>> /\ memory' = [memory EXCEPT ![p] = proc[p].cfg]
          /\ proc[p].cfg = config
        BY <1>8, <2>1 DEF Serve, ConfigHolds, Following
    <2>3. memory'[p] = config' /\ \A q \in Proc \ {p} : memory'[q] = memory[q]
        BY <1>0, <2>2
    <2> QED BY <2>1, <2>2, <2>3 DEF ConfigHolds, Following, Only
<1>9. ASSUME NEW p \in Proc, PostConfig(p) \/ ResetInGui(p) PROVE ConfigHolds'
    <2>1. PICK cfg \in Config : Process(p, cfg)
        BY <1>9, ConfigureStepDoes
    <2>2. UNCHANGED <<config, memory, behind>>
        BY <2>1 DEF Process, Configs
    <2>3. Only(p) /\ proc'[p].up = proc[p].up /\ proc[p].pc # "saved" /\ proc'[p].pc # "saved"
        BY <2>1, ProcessProtocol DEF Goes
    <2> QED BY <2>2, <2>3, OtherConfig
<1>10. ASSUME NEW p \in Proc, ResetInCli(p) PROVE ConfigHolds'
    <2>1. /\ UNCHANGED <<proc, memory>> /\ behind' = {q \in Proc \ {p} : proc[q].up}
          /\ proc[p].pc = "ready" /\ Alone(p)
        BY <1>10 DEF ResetInCli, Overtake
    <2>2. ~proc[p].up /\ \A q \in Proc : proc[q].pc # "saved"
        BY <2>1 DEF Protocol, Stage, Alone, AtRest
    <2> QED BY <2>1, <2>2 DEF ConfigHolds, Following
<1>11. ASSUME NEW p \in Proc, \/ OpenProfiles(p) \/ SaveProfiles(p) \/ SaveRemotes(p)
                              \/ \E s \in Store, n \in Name : Change(p, s, n)
       PROVE  ConfigHolds'
    <2>1. UNCHANGED <<config, memory, behind>>
        BY <1>11 DEF OpenProfiles, SaveProfiles, SaveRemotes, Stored, Change, Configs
    <2>2. Only(p) /\ proc'[p].up = proc[p].up /\ proc[p].pc # "saved" /\ proc'[p].pc # "saved"
        <3>1. CASE OpenProfiles(p)
            BY <3>1, OpenProfilesProtocol
        <3>2. CASE SaveProfiles(p) \/ SaveRemotes(p)
            BY <3>2, StoredProtocol, RestFacts
        <3>3. CASE \E s \in Store, n \in Name : Change(p, s, n)
            BY <3>3, ChangeProtocol
        <3> QED BY <1>11, <3>1, <3>2, <3>3
    <2> QED BY <2>1, <2>2, OtherConfig
<1> QED BY <1>1, <1>2, <1>3, <1>4, <1>5, <1>6, <1>7, <1>8, <1>9, <1>10, <1>11, StepCases

-----------------------------------------------------------------------------
(* The certificate.                                                        *)

LEMMA SameTls ==
    ASSUME TlsHolds, UNCHANGED <<cert, key>>, cut \subseteq cut',
           \A q \in Proc : proc'[q].pc \in {"certing", "keyless", "keying"} =>
               proc'[q].pc = proc[q].pc /\ proc'[q].pair = proc[q].pair,
           \A q \in Proc : proc[q].pc = "keying" => proc'[q].pc = "keying" \/ "key" \in cut',
           Promised' => Promised \/ Done
    PROVE  TlsHolds'
<1>1. Done => Done'
    BY DEF Done
<1>2. \A q \in Proc : Writing(q)'
    BY DEF TlsHolds, Writing
<1>3. key # None => Done' \/ (cert \in Pair /\ key = Torn /\ \E q \in Proc : proc'[q].pc = "keying")
    BY <1>1 DEF TlsHolds, Done
<1> QED BY <1>1, <1>2, <1>3 DEF TlsHolds

\* A step of one process that does not write the certificate.
LEMMA OtherTls ==
    ASSUME TlsHolds, UNCHANGED <<cert, key>>, cut \subseteq cut', NEW p \in Proc, Only(p),
           proc[p].pc # "keying", proc'[p].pc \notin {"certing", "keyless", "keying"},
           Promised' => Promised \/ Done
    PROVE  TlsHolds'
BY SameTls DEF Only

\* What a process promises that does not change, or of which less is left.
LEMMA SamePromises ==
    ASSUME NEW q \in Proc, memory'[q] = memory[q] \/ (~memory'[q].certified /\ ~proc'[q].up),
           proc'[q].cfg = proc[q].cfg \/ ~proc'[q].cfg.certified,
           proc'[q].pc \notin {"saving", "saved"} \/ (proc'[q].pc = proc[q].pc /\ proc'[q].cfg = proc[q].cfg),
           proc'[q].up => proc[q].up
    PROVE  Promises(q)' => Promises(q)
BY DEF Promises

LEMMA OnlyPromises ==
    ASSUME NEW p \in Proc, Only(p), \A q \in Proc \ {p} : memory'[q] = memory[q],
           UNCHANGED <<config, page>>, Promises(p)' => Promised \/ Done
    PROVE  Promised' => Promised \/ Done
<1>1. \A q \in Proc \ {p} : Promises(q)' => Promises(q)
    BY DEF Only, Promises
<1> QED BY <1>1 DEF Promised

LEMMA NoPromise == ~Default.certified
BY DEF Default

\* While one process writes the certificate, no other does.
LEMMA OneCertifier ==
    ASSUME Protocol, NEW p \in Proc, proc[p].pc \in {"certifying", "certing", "keyless", "keying"}, Only(p)
    PROVE  \A q \in Proc \ {p} : /\ proc[q].pc \notin {"certing", "keyless", "keying"}
                                 /\ proc'[q].pc \notin {"certing", "keyless", "keying"}
BY DEF Protocol, OneChange, Busy, AtRest, Only

LEMMA AdvanceTls == RestOK /\ Protocol /\ TlsHolds => \A p \in Proc : Advance(p) => TlsHolds'
<1> SUFFICES ASSUME RestOK, Protocol, TlsHolds, NEW p \in Proc, Advance(p) PROVE TlsHolds'
    OBVIOUS
<1>1. UNCHANGED <<memory, page, cut>>
    BY DEF Advance, LoadConfig, ReuseCertificate, OpenCert, WriteCert, OpenKey, WriteKey,
           SaveConfig, Configs, Step
<1>2. Only(p) /\ proc'[p].up = proc[p].up
    BY AdvanceDoes DEF Advance, Goes
<1>3. proc[p].cfg \in Config
    BY DEF Protocol, ProcOK, ProcRec
<1>4. CASE LoadConfig(p)
    <2>1. /\ proc[p].pc = "loading" /\ proc'[p].cfg = config
          /\ proc'[p].pc = (IF config.https THEN "certifying" ELSE "saved")
          /\ UNCHANGED <<config, cert, key>>
        BY <1>4, AdvanceDoes DEF Goes, LoadConfig, Configs, Tls
    <2>2. Promises(p)' => Promised
        BY <1>1, <1>2, <2>1 DEF Promised, Promises
    <2> QED BY <1>1, <1>2, <2>1, <2>2, OnlyPromises, OtherTls
<1>5. CASE ReuseCertificate(p)
    <2>1. /\ proc[p].pc = "certifying" /\ proc'[p].pc = "saving" /\ UNCHANGED <<cert, key>>
          /\ Certified(p)
        BY <1>5, AdvanceDoes DEF Goes, ReuseCertificate, Tls
    <2>2. Done
        <3>1. CASE proc[p].cfg.certified
            BY <3>1 DEF TlsHolds, Promised, Promises
        <3>2. CASE Reusable
            BY <1>2, <2>1, <3>2, OneCertifier DEF Reusable, TlsHolds
        <3> QED BY <2>1, <3>1, <3>2 DEF Certified
    <2> QED BY <1>1, <1>2, <2>1, <2>2, OtherTls
<1>6. CASE SaveConfig(p)
    <2>1. /\ proc[p].pc = "saving" /\ proc'[p].pc = "saved" /\ proc'[p].cfg = proc[p].cfg
          /\ config' = proc[p].cfg /\ UNCHANGED <<cert, key>>
        BY <1>6, AdvanceDoes DEF Goes, KeepsCfg, SaveConfig, Tls
    <2>2. \A q \in Proc : Promises(q)' => Promises(q)
        BY <1>1, <1>2, <2>1 DEF Only, Promises
    <2>3. config'.certified => Promises(p)
        BY <2>1 DEF Promises
    <2>4. Promised' => Promised
        BY <1>1, <2>2, <2>3 DEF Promised
    <2> QED BY <1>1, <1>2, <2>1, <2>4, OtherTls
\* As long as there is no certificate with a key, nobody says that there is one.
<1>7. ASSUME ~Done, proc'[p].pc \notin {"saving", "saved"}, proc'[p].cfg = proc[p].cfg, UNCHANGED config
      PROVE  ~Promised'
    <2>1. \A q \in Proc : Promises(q)' => Promises(q)
        BY <1>1, <1>2, <1>7 DEF Only, Promises
    <2>2. ~Promised
        BY <1>7 DEF TlsHolds
    <2> QED BY <1>1, <1>7, <2>1, <2>2 DEF Promised
<1>8. ASSUME key = None PROVE ~Done
    BY <1>8, SettingsAssumption DEF Done
<1>9. CASE OpenCert(p)
    <2>1. /\ proc[p].pc = "certifying" /\ proc'[p].pc = "certing" /\ proc'[p].cfg = proc[p].cfg
          /\ proc'[p].pair \in Pair /\ cert' = Torn /\ key' = key /\ UNCHANGED config
          /\ cert = None \/ key = None
        BY <1>9, AdvanceDoes DEF Goes, OpenCert, Certified, Reusable, Configs
    <2>2. \A q \in Proc \ {p} : /\ proc[q].pc \notin {"certing", "keyless", "keying"}
                                /\ proc'[q].pc \notin {"certing", "keyless", "keying"}
        BY <1>2, <2>1, OneCertifier
    <2>3. key = None
        BY <2>1, <2>2, SettingsAssumption DEF TlsHolds, Done
    <2>4. ~Promised'
        BY <1>7, <1>8, <2>1, <2>3
    <2>5. \A q \in Proc : Writing(q)'
        BY <2>1, <2>2, <2>3 DEF Writing
    <2> QED BY <2>1, <2>3, <2>4, <2>5 DEF TlsHolds
<1>10. CASE WriteCert(p)
    <2>1. /\ proc[p].pc = "certing" /\ proc'[p].pc = "keyless" /\ proc'[p].cfg = proc[p].cfg
          /\ proc'[p].pair = proc[p].pair /\ cert' = proc[p].pair /\ key' = key /\ UNCHANGED config
        BY <1>10, AdvanceDoes DEF Goes, KeepsCfg, WriteCert, Configs
    <2>2. key = None /\ proc[p].pair \in Pair
        BY <2>1 DEF TlsHolds, Writing
    <2>3. ~Promised'
        BY <1>7, <1>8, <2>1, <2>2
    <2>4. \A q \in Proc : Writing(q)'
        BY <1>2, <2>1, <2>2, OneCertifier DEF Writing
    <2> QED BY <2>1, <2>2, <2>3, <2>4 DEF TlsHolds
<1>11. CASE OpenKey(p)
    <2>1. /\ proc[p].pc = "keyless" /\ proc'[p].pc = "keying" /\ proc'[p].cfg = proc[p].cfg
          /\ proc'[p].pair = proc[p].pair /\ cert' = cert /\ key' = Torn /\ UNCHANGED config
        BY <1>11, AdvanceDoes DEF Goes, KeepsCfg, OpenKey, Configs
    <2>2. key = None /\ proc[p].pair \in Pair /\ cert = proc[p].pair
        BY <2>1 DEF TlsHolds, Writing
    <2>3. ~Promised'
        BY <1>7, <1>8, <2>1, <2>2
    <2>4. \A q \in Proc : Writing(q)'
        BY <1>2, <2>1, <2>2, OneCertifier DEF Writing
    <2> QED BY <2>1, <2>2, <2>3, <2>4 DEF TlsHolds
<1>12. CASE WriteKey(p)
    <2>1. /\ proc[p].pc = "keying" /\ proc'[p].pc = "saving" /\ cert' = cert /\ key' = proc[p].pair
        BY <1>12, AdvanceDoes DEF Goes, WriteKey
    <2>2. cert = proc[p].pair /\ proc[p].pair \in Pair
        BY <2>1 DEF TlsHolds, Writing
    <2>3. Done'
        BY <2>1, <2>2 DEF Done
    <2>4. \A q \in Proc : Writing(q)'
        BY <1>2, <2>1, OneCertifier DEF Writing
    <2> QED BY <2>3, <2>4 DEF TlsHolds
<1> QED BY <1>4, <1>5, <1>6, <1>9, <1>10, <1>11, <1>12 DEF Advance

LEMMA StepTls == RestOK /\ Protocol /\ TlsHolds /\ [Next]_vars => TlsHolds'
<1> SUFFICES ASSUME RestOK, Protocol, TlsHolds, [Next]_vars PROVE TlsHolds'
    OBVIOUS
<1>0. memory \in [Proc -> Config]
    BY DEF RestOK
<1>1. CASE UNCHANGED vars
    <2>1. Promised' => Promised
        BY <1>1 DEF vars, Promised, Promises
    <2> QED BY <1>1, <2>1, SameTls DEF vars
<1>2. ASSUME NEW p \in Proc, LoadPage(p) PROVE TlsHolds'
    <2>1. UNCHANGED <<proc, config, memory, cut, cert, key>> /\ page' = memory[p]
        BY <1>2 DEF LoadPage, Tls
    <2>2. Promised' => Promised
        BY <2>1 DEF Promised, Promises
    <2> QED BY <2>1, <2>2, SameTls
<1>3. ASSUME NEW p \in Proc, List(p) \/ PassGuard(p) PROVE TlsHolds'
    <2>1. /\ Only(p) /\ AtRest(p) /\ proc'[p].pc \in {"killing", "loading"} /\ ~proc'[p].up
          /\ proc'[p].cfg = proc[p].cfg /\ UNCHANGED <<config, memory, page, cert, key, cut>>
        BY <1>3, GuardFields
    <2>2. Promises(p)' => Promises(p)
        BY <2>1, SamePromises
    <2>3. Promised' => Promised \/ Done
        BY <2>1, <2>2, OnlyPromises DEF Promised
    <2> QED BY <2>1, <2>3, OtherTls DEF AtRest
<1>4. ASSUME NEW p \in Proc, NEW role \in {"gui", "cli"}, Start(p, role) PROVE TlsHolds'
    <2>1. UNCHANGED <<config, memory, page, cert, key, cut>>
        BY <1>4 DEF Start, Configs, Tls
    <2>2. /\ ~proc'[p].up /\ proc'[p].pc \in {"listing", "ready"} /\ proc[p].pc = "none" /\ proc'[p].cfg = Default
          /\ \A q \in Proc \ {p} :
               /\ proc'[q].pc = proc[q].pc /\ proc'[q].up = proc[q].up /\ proc'[q].cfg = proc[q].cfg
               /\ proc'[q] = proc[q] \/ proc[q].pc = "killing"
        BY <1>4, StartFields
    <2>3. \A q \in Proc : Promises(q)' => Promises(q)
        BY <2>1, <2>2, NoPromise DEF Promises
    <2>4. Promised' => Promised
        BY <2>1, <2>3 DEF Promised
    <2> QED BY <2>1, <2>2, <2>4, SameTls
<1>5. ASSUME NEW p \in Proc, NEW q \in Proc, Terminate(p, q) PROVE TlsHolds'
    <2>1. /\ Only(p) /\ proc[p].pc = "killing" /\ proc'[p].pc = "killing"
          /\ proc'[p].up = proc[p].up /\ proc'[p].cfg = proc[p].cfg
          /\ UNCHANGED <<config, memory, page, cert, key, cut>>
        BY <1>5, TerminateFields
    <2>2. Promises(p)' => Promises(p)
        BY <2>1, SamePromises
    <2>3. Promised' => Promised \/ Done
        BY <2>1, <2>2, OnlyPromises DEF Promised
    <2> QED BY <2>1, <2>3, OtherTls
<1>6. ASSUME NEW p \in Proc, Leaves(p) PROVE TlsHolds'
    <2>1. Leaving(p)
        BY <1>6, LeaveLeaves
    <2>2. /\ Only(p) /\ proc'[p].cfg = Default /\ proc'[p].pc \in {"none", "serving"}
          /\ proc'[p].up => proc[p].up /\ UNCHANGED memory
        BY <2>1, LeaveDoes
    <2>3. /\ UNCHANGED <<config, page, cert, key>> /\ cut \subseteq cut' /\ Open(p) \subseteq cut'
          /\ \A q \in Proc \ {p} : memory'[q] = memory[q]
          /\ memory'[p] \in {memory[p], Default}
        BY <2>1 DEF Leaving
    <2>4. Promises(p)' => Promises(p)
        BY <2>2, <2>3, NoPromise DEF Promises
    <2>5. Promised' => Promised
        BY <2>2, <2>3, <2>4 DEF Promised, Promises, Only
    <2>6. proc[p].pc = "keying" => "key" \in cut'
        BY <2>3, OpenFacts
    <2> QED BY <2>2, <2>3, <2>5, <2>6, SameTls DEF Only
<1>7. ASSUME NEW p \in Proc, Serve(p) PROVE TlsHolds'
    <2>1. /\ Only(p) /\ proc[p].pc = "saved" /\ proc'[p].pc = "serving" /\ proc'[p].cfg = Default
        BY <1>7, ServeDoes, GoneFacts DEF ProcRec
    <2>2. UNCHANGED <<config, page, cert, key, cut>> /\ memory' = [memory EXCEPT ![p] = proc[p].cfg]
        BY <1>7 DEF Serve, Tls
    <2>3. memory'[p] = proc[p].cfg /\ \A q \in Proc \ {p} : memory'[q] = memory[q]
        BY <1>0, <2>2
    <2>4. Promises(p)' => Promises(p)
        BY <2>1, <2>3, NoPromise DEF Promises
    <2>5. Promised' => Promised \/ Done
        BY <2>1, <2>2, <2>3, <2>4, OnlyPromises DEF Promised
    <2> QED BY <2>1, <2>2, <2>5, OtherTls
<1>8. ASSUME NEW p \in Proc, PostConfig(p) \/ ResetInGui(p) PROVE TlsHolds'
    <2>1. PICK cfg \in Config : Process(p, cfg) /\ (cfg.certified => page # None /\ page.certified)
        BY <1>8, ConfigureStepDoes
    <2>2. UNCHANGED <<config, memory, page, cert, key, cut>>
        BY <2>1 DEF Process, Configs, Tls
    <2>3. /\ Only(p) /\ proc'[p].up = proc[p].up /\ proc[p].pc = "serving" /\ proc'[p].cfg = cfg
          /\ proc'[p].pc = (IF cfg.https THEN "certifying" ELSE "saving")
        BY <2>1, ProcessProtocol DEF Goes
    <2>4. Promises(p)' => Promised
        BY <2>1, <2>2, <2>3 DEF Promised, Promises
    <2>5. Promised' => Promised \/ Done
        BY <2>2, <2>3, <2>4, OnlyPromises
    <2> QED BY <2>2, <2>3, <2>5, OtherTls
<1>9. ASSUME NEW p \in Proc, ResetInCli(p) PROVE TlsHolds'
    <2>1. UNCHANGED <<proc, memory, page, cut, cert, key>> /\ config' \in {Default, WithUser(config, None)}
        BY <1>9 DEF ResetInCli, Tls
    <2>2. config'.certified => config.certified
        <3>1. WithUser(config, None).certified = config.certified
            BY DEF WithUser, RestOK, Config
        <3> QED BY <2>1, <3>1, NoPromise
    <2>3. Promised' => Promised
        BY <2>1, <2>2 DEF Promised, Promises
    <2> QED BY <2>1, <2>3, SameTls
<1>10. ASSUME NEW p \in Proc, \/ OpenProfiles(p) \/ SaveProfiles(p) \/ SaveRemotes(p)
                              \/ \E s \in Store, n \in Name : Change(p, s, n)
       PROVE  TlsHolds'
    <2>1. UNCHANGED <<config, memory, page, cert, key, cut>>
        BY <1>10 DEF OpenProfiles, SaveProfiles, SaveRemotes, Stored, Step, Change, Configs, Tls
    <2>2. /\ Only(p) /\ proc'[p].up = proc[p].up /\ proc'[p].cfg \in {proc[p].cfg, Default}
          /\ proc[p].pc \in {"changing", "writing", "serving", "ready"}
          /\ proc'[p].pc \in {"changing", "writing", "serving", "ready"}
        <3>1. CASE OpenProfiles(p)
            BY <3>1, OpenProfilesProtocol
        <3>2. CASE SaveProfiles(p) \/ SaveRemotes(p)
            BY <3>2, StoredProtocol, RestFacts
        <3>3. CASE \E s \in Store, n \in Name : Change(p, s, n)
            BY <3>3, ChangeProtocol
        <3> QED BY <1>10, <3>1, <3>2, <3>3
    <2>3. Promises(p)' => Promises(p)
        BY <2>1, <2>2, NoPromise DEF Promises
    <2>4. Promised' => Promised \/ Done
        BY <2>1, <2>2, <2>3, OnlyPromises DEF Promised
    <2> QED BY <2>1, <2>2, <2>4, OtherTls
<1> QED BY <1>1, <1>2, <1>3, <1>4, <1>5, <1>6, <1>7, <1>8, <1>9, <1>10, StepCases, AdvanceTls

-----------------------------------------------------------------------------
LEMMA InitAll == Init => All
<1> SUFFICES ASSUME Init PROVE All
    OBVIOUS
<1>1. RestOK
    BY DefaultConfig DEF Init, RestOK, Store
<1>2. \A p \in Proc : proc[p] = Gone
    BY DEF Init
<1>3. Protocol
    <2>1. ProcOK
        BY GoneFacts DEF Init, ProcOK
    <2>2. \A p \in Proc : Stage(p) /\ ~Listed(p) /\ ~Busy(p)
        BY <1>2, GoneFacts DEF Stage, Idle, Listed, Busy, AtRest, GuiPcs, Pcs
    <2> QED BY <2>1, <2>2 DEF Protocol, OneGoesOn, OneChange
<1>4. StoresHold
    BY <1>2, GoneFacts DEF Init, StoresHold, StoresKept, Changing, Store
<1>5. ConfigHolds
    BY <1>2, GoneFacts DEF ConfigHolds, Following
<1>6. TlsHolds
    <2>1. ~Promised
        BY <1>2, GoneFacts, NoPromise DEF Init, Promised, Promises
    <2>2. \A p \in Proc : Writing(p)
        BY <1>2, GoneFacts DEF Writing
    <2> QED BY <2>1, <2>2 DEF Init, TlsHolds
<1>7. Signals
    BY DEF Init, Signals
<1> QED BY <1>1, <1>3, <1>4, <1>5, <1>6, <1>7 DEF All

LEMMA StepAll == All /\ [Next]_vars => All'
BY StepRest, StepProtocol, StepSignals, StepStores, StepConfig, StepTls DEF All

LEMMA AlwaysAll == Spec => []All
BY InitAll, StepAll, PTL DEF Spec

\* A process at rest is what Rest makes of it.
LEMMA SameRecord ==
    ASSUME NEW a \in ProcRec, NEW b \in ProcRec, a.role = b.role, a.pc = b.pc, a.up = b.up,
           a.targets = b.targets, a.failed = b.failed, a.cfg = b.cfg, a.store = b.store,
           a.name = b.name, a.names = b.names, a.pair = b.pair
    PROVE  a = b
BY DEF ProcRec

LEMMA AtRestIsRest ==
    ASSUME Protocol, NEW p \in Proc, proc[p].pc \in {"none", "serving", "ready"}
    PROVE  proc[p] \in {Gone, Rest(p)}
<1>1. proc[p] \in ProcRec /\ Stage(p)
    BY DEF Protocol, ProcOK
<1>2. /\ Idle(p) /\ proc[p].targets = {} /\ ~proc[p].failed
      /\ proc[p].up <=> proc[p].pc = "serving"
      /\ proc[p].role = "none" <=> proc[p].pc = "none"
    BY <1>1 DEF Stage
<1>3. proc[p].failed = FALSE /\ Gone.failed = FALSE /\ Rest(p).failed = FALSE
    <2>1. \A b \in BOOLEAN : ~b => b = FALSE
        OBVIOUS
    <2>2. proc[p].failed \in BOOLEAN /\ Gone.failed \in BOOLEAN /\ Rest(p).failed \in BOOLEAN
        BY <1>1, GoneFacts, RestFacts DEF ProcRec
    <2> QED BY <1>2, <2>1, <2>2, GoneFacts, RestFacts
<1>4. CASE proc[p].pc = "none"
    <2>1. proc[p].up = FALSE /\ Gone.up = FALSE
        <3>1. proc[p].up \in BOOLEAN /\ ~proc[p].up
            BY <1>1, <1>2, <1>4 DEF ProcRec
        <3> QED BY <3>1 DEF Gone
    <2>2. proc[p] = Gone
        BY <1>1, <1>2, <1>3, <1>4, <2>1, GoneFacts, SameRecord DEF Idle
    <2> QED BY <2>2
<1>5. CASE proc[p].pc \in {"serving", "ready"}
    <2>1. proc[p].pc = Rest(p).pc
        BY <1>2, <1>5, RestFacts
    <2>2. /\ Rest(p) \in ProcRec /\ Rest(p).role = proc[p].role /\ Rest(p).up = proc[p].up
          /\ Rest(p).targets = {} /\ Rest(p).cfg = Default /\ Rest(p).store = "profiles"
          /\ Rest(p).name = None /\ Rest(p).names = {} /\ Rest(p).pair = None
        BY RestFacts
    <2>3. proc[p] = Rest(p)
        BY <1>1, <1>2, <1>3, <2>1, <2>2, SameRecord DEF Idle
    <2> QED BY <2>3
<1> QED BY <1>4, <1>5

\* Every variable keeps its type, what a process has loaded does not outlive the change it
\* was loaded for, and only what runs can be told to stop or fall behind.
THEOREM TypeCorrect == Spec => []TypeOK
<1>1. All => TypeOK
    <2> SUFFICES ASSUME All PROVE TypeOK
        OBVIOUS
    <2>1. \A p \in Proc : /\ proc[p].role \in {"none", "gui", "cli"}
                          /\ proc[p].cfg \in Config /\ proc[p].names \subseteq Name
        BY DEF All, Protocol, ProcOK, ProcRec
    <2>2. \A p \in Proc : proc[p].pc \in {"none", "serving", "ready"} => proc[p] \in {Gone, Rest(p)}
        BY AtRestIsRest DEF All
    <2> QED BY <2>1, <2>2 DEF All, RestOK, Signals, TypeOK
<1> QED BY <1>1, AlwaysAll, PTL

\* However many starts run at once and whatever they meet, of two GUIs that serve, or get
\* ready to, one has been sent the signal to stop (processguard.go:14, main.go:575).  It may
\* run on for a while: nobody waits for its end (processguard_unix.go:21).
THEOREM OneGuiServes == Spec => []OneInstance
<1>1. All => OneInstance
    BY OneGui DEF All
<1> QED BY <1>1, AlwaysAll, PTL

\* A store that can be read holds what the completed changes were to leave in it.  The
\* remote profiles can always be read; the saved locations cannot while they are written,
\* nor ever again if a kill or an error broke that off (profile.go:69), and are then not
\* replaced by a shorter list.
THEOREM StoresHoldChanges == Spec => []StoresKept
<1>1. All => StoresKept
    BY DEF All, StoresHold
<1> QED BY <1>1, AlwaysAll, PTL

\* A GUI that serves has the configuration of the file: what was last saved in it, a
\* password kept without being entered again, or the default after a reset
\* (server.go:1857); but for one that is behind: a reset from the command line, or a GUI
\* that has been told to stop, has changed the file beside it (main.go:514), and its own
\* next save puts back what it has in memory (server.go:1880).
THEOREM GuiHasTheFile == Spec => []SettingsHold
<1>1. All => SettingsHold
    BY DEF All, Protocol, Stage, ConfigHolds, Following, SettingsHold
<1> QED BY <1>1, AlwaysAll, PTL

\* A GUI with https serves a certificate with its own key, written now or kept from an
\* earlier start, whichever step of which start was killed or failed, but for one: a key
\* cut short is kept for ever (appconfig.go:156).
THEOREM HttpsHasACertificate == Spec => []TlsUsable
<1>1. All => TlsUsable
    BY DEF All, TlsHolds, Promised, Promises, Done, TlsUsable
<1> QED BY <1>1, AlwaysAll, PTL
=============================================================================
