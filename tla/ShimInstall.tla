----------------------------- MODULE ShimInstall ------------------------------
(***************************************************************************)
(* How src/pkusb.c gets between the OEM modules and Windows: install walks *)
(* the target modules that are loaded, takes each it has not seen for its  *)
(* own (already) and patches its import table, one import after another,   *)
(* keeping what it replaces as the real function the shim passes on to.    *)
(* DllMain calls it first; then the watcher thread does every 100 ms, and  *)
(* every thread of the engine that asks for a version.  Nothing locks.     *)
(***************************************************************************)
EXTENDS Naturals, Sequences

CONSTANTS
  Targets,       \* TARGETS: the modules to patch, in order
  Imports,       \* the imports to patch, in order
  Slots,         \* the size of g_done: 8
  Loader,        \* the thread that runs DllMain
  Callers        \* the watcher and the engine's threads

Threads == Callers \union {Loader}
Modules == {Targets[i] : i \in 1..Len(Targets)}
Functions == {Imports[i] : i \in 1..Len(Imports)}
Free == "free"

VARIABLES
  loaded,        \* modules in the process
  iat,           \* their import tables: "windows" or "shim"
  real,          \* real_CreateFileW...: "unset", "windows" or "shim"
  g_done,        \* modules taken
  pc,            \* per thread: "idle", or where it is in install
  target,        \* per thread: the module it is at
  place          \* per thread: the slot of g_done, or the import, it is at

vars == <<loaded, iat, real, g_done, pc, target, place>>

TypeOK ==
  /\ loaded \subseteq Modules
  /\ iat \in [Modules -> [Functions -> {"windows", "shim"}]]
  /\ real \in [Functions -> {"unset", "windows", "shim"}]
  /\ g_done \in [1..Slots -> Modules \union {Free}]
  /\ pc \in [Threads -> {"idle", "target", "slot", "take", "save", "replace"}]
  /\ target \in [Threads -> 1..(Len(Targets) + 1)]
  /\ place \in [Threads -> Nat]

Init ==
  /\ loaded \in SUBSET Modules
  /\ iat = [m \in Modules |-> [f \in Functions |-> "windows"]]
  /\ real = [f \in Functions |-> "unset"]
  /\ g_done = [s \in 1..Slots |-> Free]
  /\ pc = [t \in Threads |-> IF t = Loader THEN "target" ELSE "idle"]
  /\ target = [t \in Threads |-> 1]
  /\ place = [t \in Threads |-> 1]

At(t) == Targets[target[t]]
To(t, where) == pc' = [pc EXCEPT ![t] = where]
Place(t, n) == place' = [place EXCEPT ![t] = n]

NextTarget(t) ==
  /\ target' = [target EXCEPT ![t] = @ + 1]
  /\ To(t, "target") /\ Place(t, 1)

(* The engine loads a module, which comes with its own table. *)
Load(m) ==
  /\ m \notin loaded
  /\ loaded' = loaded \union {m}
  /\ UNCHANGED <<iat, real, g_done, pc, target, place>>

install(t) ==
  /\ t \in Callers /\ pc[t] = "idle" /\ pc[Loader] = "idle"
  /\ target' = [target EXCEPT ![t] = 1]
  /\ To(t, "target") /\ Place(t, 1)
  /\ UNCHANGED <<loaded, iat, real, g_done>>

GetModuleHandle(t) ==
  /\ pc[t] = "target"
  /\ \/ /\ target[t] > Len(Targets)
        /\ To(t, "idle")
        /\ UNCHANGED <<target, place>>
     \/ /\ target[t] <= Len(Targets) /\ At(t) \in loaded
        /\ To(t, "slot")
        /\ UNCHANGED <<target, place>>
     \/ /\ target[t] <= Len(Targets) /\ At(t) \notin loaded
        /\ NextTarget(t)
  /\ UNCHANGED <<loaded, iat, real, g_done>>

(* already: the slots are read one by one up to the first free one, which is
   then written. *)
already(t) ==
  /\ pc[t] = "slot"
  /\ \/ /\ place[t] > Slots \/ g_done[place[t]] = At(t)
        /\ NextTarget(t)
     \/ /\ place[t] <= Slots /\ g_done[place[t]] = Free
        /\ To(t, "take")
        /\ UNCHANGED <<target, place>>
     \/ /\ place[t] <= Slots /\ g_done[place[t]] \notin {Free, At(t)}
        /\ Place(t, place[t] + 1)
        /\ UNCHANGED <<pc, target>>
  /\ UNCHANGED <<loaded, iat, real, g_done>>

Take(t) ==
  /\ pc[t] = "take"
  /\ g_done' = [g_done EXCEPT ![place[t]] = At(t)]
  /\ To(t, "save") /\ Place(t, 1)
  /\ UNCHANGED <<loaded, iat, real, target>>

(* patch_one: keep the entry, then replace it, if the page can be made
   writable. *)
Save(t) ==
  /\ pc[t] = "save"
  /\ real' = [real EXCEPT ![Imports[place[t]]] = iat[At(t)][Imports[place[t]]]]
  /\ To(t, "replace")
  /\ UNCHANGED <<loaded, iat, g_done, target, place>>

Replace(t) ==
  /\ pc[t] = "replace"
  /\ iat' \in {iat, [iat EXCEPT ![At(t)][Imports[place[t]]] = "shim"]}
  /\ IF place[t] < Len(Imports)
     THEN To(t, "save") /\ Place(t, place[t] + 1) /\ UNCHANGED target
     ELSE NextTarget(t)
  /\ UNCHANGED <<loaded, real, g_done>>

Next ==
  \/ \E m \in Modules : Load(m)
  \/ \E t \in Threads :
       \/ install(t) \/ GetModuleHandle(t) \/ already(t)
       \/ Take(t) \/ Save(t) \/ Replace(t)

Spec == Init /\ [][Next]_vars

-----------------------------------------------------------------------------
(* Where the shim passes a call on, it passes it on to Windows, never to
   itself for ever: "install() is therefore idempotent and gets called from
   DllMain, from the re-exported stubs, and from a short-lived watcher
   thread". *)
PassesOn == \A f \in Functions : real[f] # "shim"
=============================================================================
