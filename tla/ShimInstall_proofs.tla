-------------------------- MODULE ShimInstall_proofs --------------------------
(***************************************************************************)
(* What a lock round install would buy: run by one thread at a time, it is *)
(* the idempotent function its comment says, for any modules, imports,     *)
(* slots and threads, and in whatever order modules are loaded.            *)
(***************************************************************************)
EXTENDS ShimInstall, TLAPS

(* What the two tables in the source give: at least one import, none twice, and
   modules that are told from a free slot. *)
Tables ==
  /\ Targets \in Seq(Modules) /\ Imports \in Seq(Functions) \ {<<>>}
  /\ Slots \in Nat /\ Free \notin Modules
  /\ \A i, j \in 1..Len(Imports) : Imports[i] = Imports[j] => i = j

(* One thread at a time. *)
Exclusive == \A s, t \in Threads : pc[s] # "idle" /\ pc[t] # "idle" => s = t

-----------------------------------------------------------------------------
(* Where a thread can be: the step it is at has a module, and an import. *)
Located(t) ==
  /\ pc[t] # "idle" /\ pc[t] # "target" => target[t] <= Len(Targets)
  /\ place[t] >= 1
  /\ pc[t] \in {"save", "replace"} => place[t] \in 1..Len(Imports)

Typed == TypeOK /\ \A t \in Threads : Located(t)

LEMMA TablesGive ==
  ASSUME Tables
  PROVE  /\ Len(Targets) \in Nat /\ Len(Imports) \in Nat \ {0} /\ Slots \in Nat
         /\ \A i \in 1..Len(Targets) : Targets[i] \in Modules
         /\ \A i \in 1..Len(Imports) : Imports[i] \in Functions
  BY DEF Tables

LEMMA TypedStep ==
  ASSUME Tables, Typed, [Next]_vars
  PROVE  Typed'
  <1>0. /\ Len(Targets) \in Nat /\ Len(Imports) \in Nat \ {0}
        /\ \A i \in 1..Len(Targets) : Targets[i] \in Modules
        /\ \A i \in 1..Len(Imports) : Imports[i] \in Functions
    BY TablesGive
  <1>1. CASE \E m \in Modules : Load(m)
    <2>1. loaded' \subseteq Modules
          /\ UNCHANGED <<iat, real, g_done, pc, target, place>>
      BY <1>1 DEF Load, Typed, TypeOK
    <2> QED
      BY <2>1 DEF Typed, TypeOK, Located
  <1>2. CASE UNCHANGED vars
    BY <1>2 DEF vars, Typed, TypeOK, Located
  <1>3. ASSUME NEW t \in Threads,
               NEW where \in {"idle", "target", "slot", "take", "save", "replace"},
               NEW n \in Nat \ {0}, NEW m \in 1..(Len(Targets) + 1),
               pc' = [pc EXCEPT ![t] = where], place' = [place EXCEPT ![t] = n],
               target' = [target EXCEPT ![t] = m],
               where # "idle" /\ where # "target" => m <= Len(Targets),
               where \in {"save", "replace"} => n \in 1..Len(Imports),
               loaded' = loaded,
               iat' \in [Modules -> [Functions -> {"windows", "shim"}]],
               real' \in [Functions -> {"unset", "windows", "shim"}],
               g_done' \in [1..Slots -> Modules \union {Free}]
        PROVE  Typed'
    <2>1. TypeOK'
      BY <1>3 DEF Typed, TypeOK
    <2>2. \A s \in Threads : Located(s)'
      BY <1>3 DEF Typed, TypeOK, Located
    <2> QED
      BY <2>1, <2>2 DEF Typed
  <1>4. ASSUME NEW t \in Threads,
               install(t) \/ GetModuleHandle(t) \/ already(t) \/ Take(t) \/ Save(t)
                 \/ Replace(t)
        PROVE  Typed'
    <2>1. /\ pc \in [Threads -> {"idle", "target", "slot", "take", "save", "replace"}]
          /\ place \in [Threads -> Nat]
          /\ target \in [Threads -> 1..(Len(Targets) + 1)]
          /\ iat \in [Modules -> [Functions -> {"windows", "shim"}]]
          /\ real \in [Functions -> {"unset", "windows", "shim"}]
          /\ g_done \in [1..Slots -> Modules \union {Free}]
          /\ Located(t)
      BY DEF Typed, TypeOK
    <2>2. target' = target => target' = [target EXCEPT ![t] = target[t]]
      BY <2>1
    <2>3. place' = place => place' = [place EXCEPT ![t] = place[t]]
      BY <2>1
    <2>4. /\ place[t] \in Nat \ {0} /\ target[t] \in 1..(Len(Targets) + 1)
          /\ target[t] <= Len(Targets) => target[t] + 1 \in 1..(Len(Targets) + 1)
      BY <1>0, <2>1 DEF Located
    <2>12. ASSUME NEW where \in {"idle", "target", "slot", "take", "save", "replace"},
                  pc' = [pc EXCEPT ![t] = where], target' = target, place' = place,
                  where # "idle" /\ where # "target" => target[t] <= Len(Targets),
                  where \in {"save", "replace"} => place[t] \in 1..Len(Imports),
                  loaded' = loaded, iat' = iat, g_done' = g_done,
                  real' \in [Functions -> {"unset", "windows", "shim"}]
           PROVE  Typed'
      <3>1. target' = [target EXCEPT ![t] = target[t]]
            /\ place' = [place EXCEPT ![t] = place[t]]
        BY <2>2, <2>3, <2>12
      <3>2. iat' \in [Modules -> [Functions -> {"windows", "shim"}]]
            /\ g_done' \in [1..Slots -> Modules \union {Free}]
        BY <2>1, <2>12
      <3> QED
        BY <1>3, <2>4, <2>12, <3>1, <3>2
    <2>5. CASE install(t)
      <3>1. 1 \in 1..(Len(Targets) + 1) /\ 1 \in Nat \ {0}
        BY <1>0
      <3> QED
        BY <1>3, <2>1, <2>5, <3>1 DEF install, To, Place
    <2>6. ASSUME UNCHANGED <<loaded, iat, real, g_done>>, NextTarget(t),
                 target[t] <= Len(Targets)
          PROVE  Typed'
      <3>1. 1 \in Nat \ {0}
        OBVIOUS
      <3> QED
        BY <1>3, <2>1, <2>4, <2>6, <3>1 DEF NextTarget, To, Place
    <2>7. CASE GetModuleHandle(t)
      <3>1. CASE target[t] > Len(Targets) /\ To(t, "idle") /\ UNCHANGED <<target, place>>
        BY <2>12, <2>1, <2>7, <3>1 DEF GetModuleHandle, To
      <3>2. CASE target[t] <= Len(Targets) /\ To(t, "slot")
                   /\ UNCHANGED <<target, place>>
        BY <2>12, <2>1, <2>7, <3>2 DEF GetModuleHandle, To
      <3>3. CASE target[t] <= Len(Targets) /\ NextTarget(t)
        BY <2>6, <2>7, <3>3 DEF GetModuleHandle
      <3> QED
        BY <2>7, <3>1, <3>2, <3>3 DEF GetModuleHandle
    <2>8. CASE already(t)
      <3>1. CASE (place[t] > Slots \/ g_done[place[t]] = At(t)) /\ NextTarget(t)
        BY <2>6, <2>1, <2>8, <3>1 DEF already, Located
      <3>2. CASE place[t] <= Slots /\ To(t, "take") /\ UNCHANGED <<target, place>>
        BY <2>12, <2>1, <2>8, <3>2 DEF already, To, Located
      <3>3. CASE Place(t, place[t] + 1) /\ UNCHANGED <<pc, target>>
        <4>1. pc' = [pc EXCEPT ![t] = "slot"]
          BY <2>1, <2>8, <3>3 DEF already
        <4>2. place[t] + 1 \in Nat \ {0}
          BY <2>4
        <4> QED
          BY <1>3, <2>1, <2>2, <2>4, <2>8, <3>3, <4>1, <4>2 DEF already, Place, Located
      <3> QED
        BY <2>8, <3>1, <3>2, <3>3 DEF already
    <2>9. CASE Take(t)
      <3>1. 1 \in Nat \ {0} /\ 1 \in 1..Len(Imports)
        BY <1>0
      <3>2. At(t) \in Modules
        BY <1>0, <2>1, <2>4, <2>9 DEF Take, At, Located
      <3>3. g_done' \in [1..Slots -> Modules \union {Free}]
        BY <2>1, <2>9, <3>2 DEF Take
      <3> QED
        BY <1>3, <2>1, <2>2, <2>4, <2>9, <3>1, <3>3 DEF Take, To, Place, Located
    <2>10. CASE Save(t)
      <3>1. At(t) \in Modules /\ Imports[place[t]] \in Functions
        BY <1>0, <2>1, <2>4, <2>10 DEF Save, At, Located
      <3>2. iat[At(t)][Imports[place[t]]] \in {"windows", "shim"}
        BY <2>1, <3>1
      <3>3. real' \in [Functions -> {"unset", "windows", "shim"}]
        BY <2>1, <2>10, <3>1, <3>2 DEF Save
      <3> QED
        BY <2>12, <2>1, <2>10, <3>3 DEF Save, To, Located
    <2>11. CASE Replace(t)
      <3>1. At(t) \in Modules /\ Imports[place[t]] \in Functions
        BY <1>0, <2>1, <2>4, <2>11 DEF Replace, At, Located
      <3>2. iat' \in [Modules -> [Functions -> {"windows", "shim"}]]
        <4>1. [iat[At(t)] EXCEPT ![Imports[place[t]]] = "shim"]
                \in [Functions -> {"windows", "shim"}]
          BY <2>1, <3>1
        <4>2. CASE iat' = iat
          BY <2>1, <4>2
        <4>3. CASE iat' = [iat EXCEPT ![At(t)][Imports[place[t]]] = "shim"]
          BY <2>1, <3>1, <4>1, <4>3
        <4> QED
          BY <2>11, <4>2, <4>3 DEF Replace
      <3>3. CASE place[t] < Len(Imports)
        <4>1. place[t] + 1 \in Nat \ {0} /\ place[t] + 1 \in 1..Len(Imports)
          BY <1>0, <2>4, <3>3
        <4> QED
          BY <1>3, <2>1, <2>2, <2>4, <2>11, <3>2, <3>3, <4>1
          DEF Replace, To, Place, Located
      <3>4. CASE ~(place[t] < Len(Imports))
        <4>1. target[t] <= Len(Targets) /\ target[t] + 1 \in 1..(Len(Targets) + 1)
          BY <2>1, <2>4, <2>11 DEF Replace, Located
        <4>2. 1 \in Nat \ {0}
          OBVIOUS
        <4> QED
          BY <1>3, <2>1, <2>4, <2>11, <3>2, <3>4, <4>1, <4>2
          DEF Replace, NextTarget, To, Place
      <3> QED
        BY <3>3, <3>4
    <2> QED
      BY <1>4, <2>5, <2>7, <2>8, <2>9, <2>10, <2>11
  <1> QED
    BY <1>1, <1>2, <1>4 DEF Next

-----------------------------------------------------------------------------
(* The slots are taken in order; a module in none of them is as it was loaded;
   the thread in install has passed slots of other modules only, and of the
   module it took the imports it has not come to are as they were. *)
InOrder ==
  \A i, j \in 1..Slots : i < j /\ g_done[i] = Free => g_done[j] = Free
Seen(m) == \E i \in 1..Slots : g_done[i] = m
Untouched ==
  \A m \in Modules : Seen(m) \/ \A f \in Functions : iat[m][f] = "windows"
Begins(t) == pc[t] = "target" => place[t] = 1
Passed(t) ==
  pc[t] \in {"slot", "take"} =>
    \A i \in 1..Slots : i < place[t] => g_done[i] \notin {Free, At(t)}
Found(t) ==
  pc[t] = "take" => place[t] \in 1..Slots /\ g_done[place[t]] = Free
Ahead(t) ==
  pc[t] \in {"save", "replace"} =>
    /\ Seen(At(t))
    /\ \A j \in 1..Len(Imports) :
         j >= place[t] => iat[At(t)][Imports[j]] = "windows"
Walks(t) == Begins(t) /\ Passed(t) /\ Found(t) /\ Ahead(t)

InstallInv == InOrder /\ Untouched /\ PassesOn /\ \A t \in Threads : Walks(t)

LEMMA InstallStep ==
  ASSUME Tables, Typed, InstallInv, Exclusive, Exclusive', [Next]_vars
  PROVE  InstallInv'
  <1>0. /\ Len(Targets) \in Nat /\ Len(Imports) \in Nat \ {0} /\ Slots \in Nat
        /\ \A i \in 1..Len(Targets) : Targets[i] \in Modules
        /\ \A i \in 1..Len(Imports) : Imports[i] \in Functions
    BY TablesGive
  <1>1. ASSUME UNCHANGED <<iat, real, g_done, pc, target, place>>
        PROVE  InstallInv'
    BY <1>1 DEF InstallInv, InOrder, Untouched, Seen, PassesOn, Walks, Begins, Passed,
                Found, Ahead, At
  <1>2. ASSUME NEW t \in Threads,
               install(t) \/ GetModuleHandle(t) \/ already(t) \/ Take(t) \/ Save(t)
                 \/ Replace(t)
        PROVE  InstallInv'
    <2>1. /\ pc \in [Threads -> {"idle", "target", "slot", "take", "save", "replace"}]
          /\ place \in [Threads -> Nat]
          /\ target \in [Threads -> 1..(Len(Targets) + 1)]
          /\ iat \in [Modules -> [Functions -> {"windows", "shim"}]]
          /\ real \in [Functions -> {"unset", "windows", "shim"}]
          /\ g_done \in [1..Slots -> Modules \union {Free}]
          /\ Located(t)
      BY DEF Typed, TypeOK
    <2>2. InOrder /\ Untouched /\ PassesOn /\ Begins(t) /\ Passed(t) /\ Found(t) /\ Ahead(t)
      BY DEF InstallInv, Walks
    <2>3. place[t] \in Nat \ {0} /\ target[t] \in 1..(Len(Targets) + 1)
      BY <1>0, <2>1 DEF Located
    (* The others are out of install. *)
    <2>4. \A s \in Threads : s # t => pc'[s] = "idle"
      <3>1. \A s \in Threads : s # t => pc'[s] = pc[s]
        BY <1>2, <2>1 DEF install, GetModuleHandle, already, Take, Save, Replace,
                          NextTarget, To
      <3>2. pc[t] # "idle" \/ pc'[t] # "idle"
        BY <1>2, <2>1 DEF install, GetModuleHandle, already, Take, Save, Replace,
                          NextTarget, To
      <3> QED
        BY <3>1, <3>2 DEF Exclusive
    <2>5. ASSUME InOrder', Untouched', PassesOn', Walks(t)'
          PROVE  InstallInv'
      <3>1. \A s \in Threads : s # t => Walks(s)'
        BY <2>4 DEF Walks, Begins, Passed, Found, Ahead
      <3> QED
        BY <2>5, <3>1 DEF InstallInv
    <2>6. g_done' = g_done => InOrder' /\ \A m \in Modules : Seen(m)' = Seen(m)
      BY <2>2 DEF InOrder, Seen
    <2>7. g_done' = g_done /\ iat' = iat => Untouched'
      BY <2>2 DEF Untouched, Seen
    <2>8. real' = real => PassesOn'
      BY <2>2 DEF PassesOn
    (* A step that only moves the thread to the next target, or out of install. *)
    <2>9. ASSUME UNCHANGED <<iat, real, g_done>>,
                 pc' = [pc EXCEPT ![t] = "idle"] \/ NextTarget(t)
                   \/ (pc' = [pc EXCEPT ![t] = "target"] /\ place' = [place EXCEPT ![t] = 1])
          PROVE  InstallInv'
      <3>1. Walks(t)'
        BY <2>1, <2>9 DEF Walks, Begins, Passed, Found, Ahead, NextTarget, To, Place
      <3> QED
        BY <2>5, <2>6, <2>7, <2>8, <2>9, <3>1
    <2>10. CASE install(t)
      BY <2>9, <2>10 DEF install, To, Place
    <2>11. CASE GetModuleHandle(t)
      <3>1. CASE To(t, "slot") /\ UNCHANGED <<target, place>>
        <4>1. pc'[t] = "slot" /\ place'[t] = 1
          BY <2>1, <2>2, <2>11, <3>1 DEF GetModuleHandle, To, Begins
        <4>2. Walks(t)'
          BY <4>1 DEF Walks, Begins, Passed, Found, Ahead
        <4> QED
          BY <2>5, <2>6, <2>7, <2>8, <2>11, <4>2 DEF GetModuleHandle
      <3> QED
        BY <2>9, <2>11, <3>1 DEF GetModuleHandle, To
    <2>12. CASE already(t)
      <3>1. CASE To(t, "take") /\ place[t] <= Slots /\ g_done[place[t]] = Free
                 /\ UNCHANGED <<target, place>>
        <4>1. pc'[t] = "take" /\ place' = place /\ target' = target /\ g_done' = g_done
          BY <2>1, <2>12, <3>1 DEF already, To
        <4>2. place[t] \in 1..Slots
          BY <1>0, <2>3, <3>1
        <4>3. Passed(t)'
          BY <2>2, <2>12, <4>1 DEF already, Passed, At
        <4>4. Walks(t)'
          BY <3>1, <4>1, <4>2, <4>3 DEF Walks, Begins, Found, Ahead
        <4> QED
          BY <2>5, <2>6, <2>7, <2>8, <2>12, <4>4 DEF already
      <3>2. CASE place[t] <= Slots /\ g_done[place[t]] \notin {Free, At(t)}
                 /\ Place(t, place[t] + 1) /\ UNCHANGED <<pc, target>>
        <4>1. pc'[t] = "slot" /\ place'[t] = place[t] + 1 /\ target' = target
              /\ g_done' = g_done
          BY <2>1, <2>12, <3>2 DEF already, Place
        <4>2. Passed(t)'
          <5>1. \A i \in 1..Slots : i < place[t] => g_done[i] \notin {Free, At(t)}
            BY <2>2, <2>12 DEF already, Passed
          <5>2. \A i \in 1..Slots : i < place[t] + 1 => i < place[t] \/ i = place[t]
            BY <1>0, <2>3
          <5>3. At(t)' = At(t)
            BY <4>1 DEF At
          <5> QED
            BY <3>2, <4>1, <5>1, <5>2, <5>3 DEF Passed
        <4>3. Walks(t)'
          BY <4>1, <4>2 DEF Walks, Begins, Found, Ahead
        <4> QED
          BY <2>5, <2>6, <2>7, <2>8, <2>12, <4>3 DEF already
      <3> QED
        BY <2>9, <2>12, <3>1, <3>2 DEF already
    <2>13. CASE Take(t)
      <3>1. At(t) \in Modules /\ At(t) # Free
        BY <1>0, <2>1, <2>3, <2>13 DEF Take, At, Located, Tables
      <3>2. place[t] \in 1..Slots /\ g_done[place[t]] = Free
        BY <2>2, <2>13 DEF Take, Found
      <3>3. \A i \in 1..Slots : i < place[t] => g_done[i] \notin {Free, At(t)}
        BY <2>2, <2>13 DEF Take, Passed
      <3>4. g_done' = [g_done EXCEPT ![place[t]] = At(t)]
        BY <2>13 DEF Take
      <3>5. InOrder'
        <4> SUFFICES ASSUME NEW i \in 1..Slots, NEW j \in 1..Slots,
                            i < j, g_done'[i] = Free
                     PROVE  g_done'[j] = Free
          BY DEF InOrder
        <4>1. i # place[t] /\ g_done[i] = Free
          BY <2>1, <3>1, <3>4
        <4>2. g_done[j] = Free /\ ~(i < place[t])
          BY <2>2, <3>3, <4>1 DEF InOrder
        <4>3. j # place[t]
          BY <4>2
        <4> QED
          BY <2>1, <3>4, <4>2, <4>3
      <3>6. \A m \in Modules : Seen(m) => Seen(m)'
        BY <2>1, <3>2, <3>4 DEF Seen, Tables
      <3>7. Untouched'
        BY <2>2, <2>13, <3>6 DEF Take, Untouched
      <3>8. ~Seen(At(t))
        <4> SUFFICES ASSUME NEW i \in 1..Slots, g_done[i] = At(t) PROVE FALSE
          BY DEF Seen
        <4>1. ~(i < place[t]) /\ i # place[t]
          BY <3>1, <3>2, <3>3
        <4>2. place[t] < i
          BY <1>0, <2>3, <4>1
        <4> QED
          BY <2>2, <3>1, <3>2, <4>2 DEF InOrder
      <3>9. Seen(At(t))'
        <4>1. g_done'[place[t]] = At(t) /\ At(t)' = At(t)
          BY <2>1, <2>13, <3>2, <3>4 DEF Take, At
        <4> QED
          BY <3>2, <4>1 DEF Seen
      <3>10. Ahead(t)'
        <4>1. \A j \in 1..Len(Imports) : iat[At(t)][Imports[j]] = "windows"
          BY <1>0, <2>2, <3>1, <3>8 DEF Untouched
        <4>2. At(t)' = At(t) /\ iat' = iat
          BY <2>13 DEF Take, At
        <4> QED
          BY <3>9, <4>1, <4>2 DEF Ahead
      <3>11. Walks(t)'
        BY <2>1, <2>13, <3>10 DEF Take, To, Walks, Begins, Passed, Found
      <3> QED
        BY <2>5, <2>8, <2>13, <3>5, <3>7, <3>11 DEF Take
    <2>14. CASE Save(t)
      <3>1. place[t] \in 1..Len(Imports) /\ Imports[place[t]] \in Functions
        BY <1>0, <2>1, <2>14 DEF Save, Located
      <3>2. iat[At(t)][Imports[place[t]]] = "windows"
        BY <2>2, <2>14, <3>1 DEF Save, Ahead
      <3>3. PassesOn'
        BY <2>1, <2>2, <2>14, <3>1, <3>2 DEF Save, PassesOn
      <3>4. Ahead(t)'
        BY <2>2, <2>14 DEF Save, Ahead, Seen, At
      <3>5. Walks(t)'
        BY <2>1, <2>14, <3>4 DEF Save, To, Walks, Begins, Passed, Found
      <3> QED
        BY <2>5, <2>6, <2>7, <2>14, <3>3, <3>5 DEF Save
    <2>15. CASE Replace(t)
      <3>1. /\ place[t] \in 1..Len(Imports) /\ Imports[place[t]] \in Functions
            /\ At(t) \in Modules
        BY <1>0, <2>1, <2>3, <2>15 DEF Replace, Located, At
      <3>2. Seen(At(t)) /\ \A j \in 1..Len(Imports) :
              j >= place[t] => iat[At(t)][Imports[j]] = "windows"
        BY <2>2, <2>15 DEF Replace, Ahead
      <3>3. /\ iat'[At(t)] \in {iat[At(t)], [iat[At(t)] EXCEPT ![Imports[place[t]]] = "shim"]}
            /\ \A m \in Modules \ {At(t)} : iat'[m] = iat[m]
        BY <2>1, <2>15, <3>1 DEF Replace
      <3>4. g_done' = g_done /\ real' = real
        BY <2>15 DEF Replace
      <3>5. Untouched'
        BY <2>2, <2>6, <3>2, <3>3, <3>4 DEF Untouched
      <3>6. CASE place[t] < Len(Imports)
        <4>1. /\ pc'[t] = "save" /\ place'[t] = place[t] + 1 /\ target' = target
          BY <2>1, <2>15, <3>6 DEF Replace, To, Place
        <4>2. At(t)' = At(t)
          BY <4>1 DEF At
        <4>3. ASSUME NEW j \in 1..Len(Imports), j >= place[t] + 1
              PROVE  iat'[At(t)][Imports[j]] = "windows"
          <5>1. j # place[t] /\ j >= place[t]
            BY <1>0, <2>3, <4>3
          <5>2. Imports[j] # Imports[place[t]] /\ Imports[j] \in Functions
            BY <1>0, <3>1, <5>1 DEF Tables
          <5>3. iat[At(t)][Imports[j]] = "windows"
            BY <3>2, <5>1
          <5> QED
            BY <2>1, <3>1, <3>3, <5>2, <5>3
        <4>4. Seen(At(t))'
          BY <3>2, <3>4, <4>2 DEF Seen
        <4>5. Walks(t)'
          BY <4>1, <4>2, <4>3, <4>4 DEF Walks, Begins, Passed, Found, Ahead
        <4> QED
          BY <2>5, <2>6, <2>8, <3>4, <3>5, <4>5
      <3>7. CASE ~(place[t] < Len(Imports))
        <4>1. Walks(t)'
          BY <2>1, <2>15, <3>7
          DEF Replace, NextTarget, To, Place, Walks, Begins, Passed, Found, Ahead
        <4> QED
          BY <2>5, <2>6, <2>8, <3>4, <3>5, <4>1
      <3> QED
        BY <3>6, <3>7
    <2> QED
      BY <1>2, <2>10, <2>11, <2>12, <2>13, <2>14, <2>15
  <1> QED
    BY <1>1, <1>2 DEF Next, Load, vars

LEMMA InitInstalled ==
  ASSUME Tables, Init
  PROVE  Typed /\ InstallInv
  <1>1. Len(Targets) \in Nat /\ 1 \in 1..(Len(Targets) + 1) /\ Len(Imports) \in Nat \ {0}
    BY TablesGive
  <1>2. Typed
    BY <1>1 DEF Init, Typed, TypeOK, Located
  <1>3. InstallInv
    BY DEF Init, InstallInv, InOrder, Untouched, PassesOn, Walks, Begins, Passed, Found,
           Ahead, Functions, Modules
  <1> QED
    BY <1>2, <1>3

(* Every variable keeps its type, whoever is in install with whom. *)
THEOREM TypeCorrect ==
  ASSUME Tables
  PROVE  Spec => []TypeOK
  <1>1. Init => Typed
    BY InitInstalled
  <1>2. Typed /\ [Next]_vars => Typed'
    BY TypedStep
  <1>3. Typed => TypeOK
    BY DEF Typed
  <1> QED
    BY <1>1, <1>2, <1>3, PTL DEF Spec

(* "install() is therefore idempotent" (src/pkusb.c): it is, wherever and
   however often it is called and whatever is loaded meanwhile, as long as one
   thread at a time is in it; then what the shim keeps as the real function
   never is the shim. *)
THEOREM InstallAlone ==
  ASSUME Tables
  PROVE  Spec /\ []Exclusive => []PassesOn
  <1>1. Init => Typed /\ InstallInv
    BY InitInstalled
  <1>2. (Typed /\ InstallInv) /\ (Exclusive /\ Exclusive' /\ [Next]_vars)
          => (Typed /\ InstallInv)'
    BY TypedStep, InstallStep
  <1>3. InstallInv => PassesOn
    BY DEF InstallInv
  <1> QED
    BY <1>1, <1>2, <1>3, PTL DEF Spec

=============================================================================
