--------------------------- MODULE RegistryProofs ---------------------------
(***************************************************************************)
(* What is proved of Registry, for any clients, tables and topics.         *)
(*                                                                         *)
(* The argument: an entity that is made is in one thread's hands until it  *)
(* is in the table (FreshInv), and a thread that has unregistered what it  *)
(* found goes on holding it, dead, until it replaces it (DeadInv). Where   *)
(* one client owns the topic, nobody else can change the entry meanwhile,  *)
(* so what that client found is still what it replaces (OwnInv).           *)
(***************************************************************************)
EXTENDS Registry, TLAPS

Commanding == {"lookup", "unregister", "unset", "create", "put"}

\* What the locals of a thread are at each place.
ThreadInv ==
  \A c \in Clients :
    /\ rpc[c] \in Commanding => target[c] \in Registers[c]
    /\ rpc[c] \notin Commanding => target[c] = None
    /\ rpc[c] \in {"read", "closed", "lookup"} => found[c] = None
    /\ rpc[c] \in {"unregister", "unset", "publish"} => found[c] # None
    /\ new[c] # None <=> rpc[c] = "put"

\* Every entity is used for the slot it was made for.
SlotInv ==
  /\ \A s \in Slots : entry[s] # None => slot[entry[s]] = s
  /\ \A c \in Clients :
       /\ new[c] # None => slot[new[c]] = target[c]
       /\ target[c] # None /\ found[c] # None => slot[found[c]] = target[c]

\* An entity that is not in the table yet is live and known to one thread only.
FreshInv ==
  \A c \in Clients :
    new[c] # None =>
      /\ new[c] \in live
      /\ \A s \in Slots : entry[s] # new[c]
      /\ \A d \in Clients : found[d] # new[c] /\ (d # c => new[d] # new[c])

\* What a thread has unregistered is dead.
DeadInv ==
  \A c \in Clients : rpc[c] \in {"unset", "create", "put"} => found[c] \notin live

\* DeadIsReplaced, of one slot.
Replaced(s) ==
  entry[s] \in Entities \ live =>
    \E c \in Clients : /\ rpc[c] \in {"unset", "create", "put"}
                       /\ target[c] = s
                       /\ found[c] = entry[s]

Owned(s) == \E c \in Clients : Owns(c, s)

\* A live entity of s is in the table or about to be put there.
NoOrphan(s) ==
  \A e \in live : slot[e] = s => entry[s] = e \/ \E c \in Clients : new[c] = e

\* What a thread at work on s has found is what the table still holds.
Holders(s) ==
  \A c \in Clients : target[c] = s /\ rpc[c] # "lookup" => found[c] = entry[s]

OwnInv == \A s \in Slots : Owned(s) => NoOrphan(s) /\ Holders(s)

\* The same for an owner that publishes.
PublishInv ==
  \A c \in Clients, s \in Slots :
    rpc[c] = "publish" /\ slot[found[c]] = s /\ Owns(c, s) => found[c] = entry[s]

Inv ==
  /\ TypeOK
  /\ ThreadInv
  /\ SlotInv
  /\ FreshInv
  /\ DeadInv
  /\ DeadIsReplaced
  /\ OwnInv
  /\ PublishInv
-----------------------------------------------------------------------------
(* Types.                                                                  *)

\* A client registers slots, and None is neither an entity nor a slot.
LEMMA Constants ==
  /\ \A c \in Clients : Registers[c] \subseteq Slots
  /\ None \notin Nat
  /\ None \notin Slots
BY RegistryAssumption

\* An entity that is made has a number of its own.
LEMMA FreshNumber ==
  ASSUME TypeOK
  PROVE  /\ made + 1 \in Nat
         /\ made + 1 \notin Entities
         /\ 1 .. (made + 1) = Entities \cup {made + 1}
         /\ None \notin Entities
BY Constants DEF TypeOK, Entities

LEMMA TypeStep ==
  ASSUME TypeOK, ThreadInv, [Next]_vars
  PROVE  TypeOK'
<1> USE Constants DEF TypeOK, Entities, ThreadInv, Commanding
<1>1. ASSUME NEW c \in Clients, Disconnect(c)
      PROVE  TypeOK'
  BY <1>1, FreshNumber DEF Disconnect, Leave, entityVars
<1>2. ASSUME NEW c \in Clients, Reconnect(c)
      PROVE  TypeOK'
  BY <1>2, FreshNumber DEF Reconnect, Leave, entityVars
<1>3. ASSUME NEW c \in Clients, NEW s \in Registers[c], Register(c, s)
      PROVE  TypeOK'
  BY <1>3, FreshNumber DEF Register, entityVars
<1>4. ASSUME NEW c \in Clients, LookUp(c)
      PROVE  TypeOK'
  BY <1>4, FreshNumber DEF LookUp, entityVars
<1>5. ASSUME NEW c \in Clients, Destroy(c)
      PROVE  TypeOK'
  BY <1>5, FreshNumber DEF Destroy, entityVars
<1>6. ASSUME NEW c \in Clients, Unset(c)
      PROVE  TypeOK'
  BY <1>6, FreshNumber DEF Unset, entityVars
<1>7. ASSUME NEW c \in Clients, Create(c)
      PROVE  TypeOK'
  BY <1>7, FreshNumber DEF Create, entityVars
<1>8. ASSUME NEW c \in Clients, CreateRaises(c)
      PROVE  TypeOK'
  BY <1>8, FreshNumber DEF CreateRaises, Leave, entityVars
<1>9. ASSUME NEW c \in Clients, Put(c)
      PROVE  TypeOK'
  BY <1>9, FreshNumber DEF Put, Leave, entityVars
<1>10. ASSUME NEW c \in Clients, NEW t \in Topics, FindPublisher(c, t)
      PROVE  TypeOK'
  <2>1. <<"publishers", t>> \in Slots
    BY <1>10 DEF FindPublisher, Slots
  <2> QED
    BY <1>10, <2>1, FreshNumber DEF FindPublisher, entityVars
<1>11. ASSUME NEW c \in Clients, Publish(c)
      PROVE  TypeOK'
  BY <1>11, FreshNumber DEF Publish, Leave, entityVars
<1>12. CASE UNCHANGED vars
  BY <1>12 DEF vars, entityVars, clientVars
<1> QED
  BY <1>1, <1>2, <1>3, <1>4, <1>5, <1>6, <1>7, <1>8, <1>9, <1>10, <1>11, <1>12 DEF Next, ClientStep

LEMMA ThreadStep ==
  ASSUME TypeOK, ThreadInv, [Next]_vars
  PROVE  ThreadInv'
<1> USE Constants, FreshNumber DEF ThreadInv, Commanding, TypeOK
<1>1. ASSUME NEW c \in Clients, Disconnect(c)
      PROVE  ThreadInv'
  BY <1>1 DEF Disconnect, Leave, entityVars
<1>2. ASSUME NEW c \in Clients, Reconnect(c)
      PROVE  ThreadInv'
  BY <1>2 DEF Reconnect, Leave, entityVars
<1>3. ASSUME NEW c \in Clients, NEW s \in Registers[c], Register(c, s)
      PROVE  ThreadInv'
  BY <1>3 DEF Register, entityVars
<1>4. ASSUME NEW c \in Clients, LookUp(c)
      PROVE  ThreadInv'
  BY <1>4 DEF LookUp, entityVars
<1>5. ASSUME NEW c \in Clients, Destroy(c)
      PROVE  ThreadInv'
  BY <1>5 DEF Destroy, entityVars
<1>6. ASSUME NEW c \in Clients, Unset(c)
      PROVE  ThreadInv'
  BY <1>6 DEF Unset, entityVars
<1>7. ASSUME NEW c \in Clients, Create(c)
      PROVE  ThreadInv'
  BY <1>7 DEF Create, entityVars
<1>8. ASSUME NEW c \in Clients, CreateRaises(c)
      PROVE  ThreadInv'
  BY <1>8 DEF CreateRaises, Leave, entityVars
<1>9. ASSUME NEW c \in Clients, Put(c)
      PROVE  ThreadInv'
  BY <1>9 DEF Put, Leave, entityVars
<1>10. ASSUME NEW c \in Clients, NEW t \in Topics, FindPublisher(c, t)
      PROVE  ThreadInv'
  BY <1>10 DEF FindPublisher, entityVars
<1>11. ASSUME NEW c \in Clients, Publish(c)
      PROVE  ThreadInv'
  BY <1>11 DEF Publish, Leave, entityVars
<1>12. CASE UNCHANGED vars
  BY <1>12 DEF vars, entityVars, clientVars
<1> QED
  BY <1>1, <1>2, <1>3, <1>4, <1>5, <1>6, <1>7, <1>8, <1>9, <1>10, <1>11, <1>12 DEF Next, ClientStep
-----------------------------------------------------------------------------
(* The parts of the inductive invariant, each kept by every step.          *)

LEMMA SlotStep ==
  ASSUME TypeOK, ThreadInv, SlotInv, [Next]_vars
  PROVE  SlotInv'
<1> USE Constants, FreshNumber DEF SlotInv, ThreadInv, Commanding, TypeOK
<1>1. ASSUME NEW c \in Clients, rpc[c] # "put",
             Leave(c, "read") \/ Leave(c, "closed"), UNCHANGED <<entry, entityVars>>
      PROVE  SlotInv'
  BY <1>1 DEF Leave, entityVars
<1>2. ASSUME NEW c \in Clients, NEW s \in Registers[c], Register(c, s)
      PROVE  SlotInv'
  BY <1>2 DEF Register, entityVars
<1>3. ASSUME NEW c \in Clients, LookUp(c)
      PROVE  SlotInv'
  BY <1>3 DEF LookUp, entityVars
<1>4. ASSUME NEW c \in Clients, Destroy(c)
      PROVE  SlotInv'
  BY <1>4 DEF Destroy, entityVars
<1>5. ASSUME NEW c \in Clients, Unset(c)
      PROVE  SlotInv'
  BY <1>5 DEF Unset, entityVars
<1>6. ASSUME NEW c \in Clients, Create(c)
      PROVE  SlotInv'
  BY <1>6 DEF Create, entityVars
<1>7. ASSUME NEW c \in Clients, Put(c)
      PROVE  SlotInv'
  BY <1>7 DEF Put, Leave, entityVars
<1>8. ASSUME NEW c \in Clients, NEW t \in Topics, FindPublisher(c, t)
      PROVE  SlotInv'
  <2>1. <<"publishers", t>> \in Slots
    BY <1>8 DEF FindPublisher, Slots
  <2> QED
    BY <1>8, <2>1 DEF FindPublisher, entityVars
<1>9. CASE UNCHANGED vars
  BY <1>9 DEF vars, entityVars, clientVars
<1> QED
  BY <1>1, <1>2, <1>3, <1>4, <1>5, <1>6, <1>7, <1>8, <1>9
     DEF Next, ClientStep, Disconnect, Reconnect, CreateRaises, Publish

LEMMA FreshStep ==
  ASSUME TypeOK, ThreadInv, FreshInv, [Next]_vars
  PROVE  FreshInv'
<1> USE Constants, FreshNumber DEF FreshInv, ThreadInv, Commanding, TypeOK
<1>1. ASSUME NEW c \in Clients, rpc[c] # "put",
             Leave(c, "read") \/ Leave(c, "closed"), UNCHANGED <<entry, entityVars>>
      PROVE  FreshInv'
  BY <1>1 DEF Leave, entityVars
<1>2. ASSUME NEW c \in Clients, NEW s \in Registers[c], Register(c, s)
      PROVE  FreshInv'
  BY <1>2 DEF Register, entityVars
<1>3. ASSUME NEW c \in Clients, LookUp(c)
      PROVE  FreshInv'
  BY <1>3 DEF LookUp, entityVars
<1>4. ASSUME NEW c \in Clients, Destroy(c)
      PROVE  FreshInv'
  BY <1>4 DEF Destroy, entityVars
<1>5. ASSUME NEW c \in Clients, Unset(c)
      PROVE  FreshInv'
  BY <1>5 DEF Unset, entityVars
<1>6. ASSUME NEW c \in Clients, Create(c)
      PROVE  FreshInv'
  BY <1>6 DEF Create, entityVars
<1>7. ASSUME NEW c \in Clients, Put(c)
      PROVE  FreshInv'
  BY <1>7 DEF Put, Leave, entityVars
<1>8. ASSUME NEW c \in Clients, NEW t \in Topics, FindPublisher(c, t)
      PROVE  FreshInv'
  <2>1. <<"publishers", t>> \in Slots
    BY <1>8 DEF FindPublisher, Slots
  <2> QED
    BY <1>8, <2>1 DEF FindPublisher, entityVars
<1>9. CASE UNCHANGED vars
  BY <1>9 DEF vars, entityVars, clientVars
<1> QED
  BY <1>1, <1>2, <1>3, <1>4, <1>5, <1>6, <1>7, <1>8, <1>9
     DEF Next, ClientStep, Disconnect, Reconnect, CreateRaises, Publish

LEMMA DeadStep ==
  ASSUME TypeOK, ThreadInv, SlotInv, FreshInv, DeadInv, [Next]_vars
  PROVE  DeadInv'
<1> USE Constants, FreshNumber DEF DeadInv, ThreadInv, Commanding, TypeOK
<1>1. ASSUME NEW c \in Clients, rpc[c] # "put",
             Leave(c, "read") \/ Leave(c, "closed"), UNCHANGED <<entry, entityVars>>
      PROVE  DeadInv'
  BY <1>1 DEF Leave, entityVars
<1>2. ASSUME NEW c \in Clients, NEW s \in Registers[c], Register(c, s)
      PROVE  DeadInv'
  BY <1>2 DEF Register, entityVars
<1>3. ASSUME NEW c \in Clients, LookUp(c)
      PROVE  DeadInv'
  BY <1>3 DEF LookUp, entityVars
<1>4. ASSUME NEW c \in Clients, Destroy(c)
      PROVE  DeadInv'
  BY <1>4 DEF Destroy, entityVars
<1>5. ASSUME NEW c \in Clients, Unset(c)
      PROVE  DeadInv'
  BY <1>5 DEF Unset, entityVars
<1>6. ASSUME NEW c \in Clients, Create(c)
      PROVE  DeadInv'
  BY <1>6 DEF Create, entityVars
<1>7. ASSUME NEW c \in Clients, Put(c)
      PROVE  DeadInv'
  BY <1>7 DEF Put, Leave, entityVars
<1>8. ASSUME NEW c \in Clients, NEW t \in Topics, FindPublisher(c, t)
      PROVE  DeadInv'
  <2>1. <<"publishers", t>> \in Slots
    BY <1>8 DEF FindPublisher, Slots
  <2> QED
    BY <1>8, <2>1 DEF FindPublisher, entityVars
<1>9. CASE UNCHANGED vars
  BY <1>9 DEF vars, entityVars, clientVars
<1> QED
  BY <1>1, <1>2, <1>3, <1>4, <1>5, <1>6, <1>7, <1>8, <1>9
     DEF Next, ClientStep, Disconnect, Reconnect, CreateRaises, Publish

LEMMA ReplacedStep ==
  ASSUME TypeOK, ThreadInv, SlotInv, FreshInv,
         NEW z \in Tables \X (Topics \ Failing), Replaced(z), [Next]_vars
  PROVE  Replaced(z)'
<1>0. z \in Slots /\ z # None /\ z \notin Tables \X Failing
  BY Constants DEF Slots
<1> USE <1>0, Constants, FreshNumber DEF Replaced, ThreadInv, Commanding, TypeOK, Entities, SlotInv,
              FreshInv
<1>1. ASSUME NEW c \in Clients, rpc[c] # "put",
             target[c] # z,
             Leave(c, "read") \/ Leave(c, "closed"), UNCHANGED <<entry, entityVars>>
      PROVE  Replaced(z)'
  BY <1>1 DEF Leave, entityVars
<1>2. ASSUME NEW c \in Clients, NEW s \in Registers[c], Register(c, s)
      PROVE  Replaced(z)'
  BY <1>2 DEF Register, entityVars
<1>3. ASSUME NEW c \in Clients, LookUp(c)
      PROVE  Replaced(z)'
  BY <1>3 DEF LookUp, entityVars
<1>4. ASSUME NEW c \in Clients, Destroy(c)
      PROVE  Replaced(z)'
  BY <1>4 DEF Destroy, entityVars
<1>5. ASSUME NEW c \in Clients, Unset(c)
      PROVE  Replaced(z)'
  BY <1>5 DEF Unset, entityVars
<1>6. ASSUME NEW c \in Clients, Create(c)
      PROVE  Replaced(z)'
  BY <1>6 DEF Create, entityVars
<1>7. ASSUME NEW c \in Clients, Put(c)
      PROVE  Replaced(z)'
  BY <1>7 DEF Put, Leave, entityVars
<1>8. ASSUME NEW c \in Clients, NEW t \in Topics, FindPublisher(c, t)
      PROVE  Replaced(z)'
  <2>1. <<"publishers", t>> \in Slots
    BY <1>8 DEF FindPublisher, Slots
  <2> QED
    BY <1>8, <2>1 DEF FindPublisher, entityVars
<1>9. CASE UNCHANGED vars
  BY <1>9 DEF vars, entityVars, clientVars
<1> QED
  BY <1>0, <1>1, <1>2, <1>3, <1>4, <1>5, <1>6, <1>7, <1>8, <1>9
     DEF Next, ClientStep, Disconnect, Reconnect, CreateRaises, Publish, ThreadInv, Commanding

\* Two threads at work on a topic that has an owner are one.
LEMMA OneHolder ==
  ASSUME ThreadInv, NEW s \in Slots, Owned(s),
         NEW c \in Clients, NEW d \in Clients, target[c] = s, target[d] = s
  PROVE  c = d
BY Constants DEF ThreadInv, Commanding, Owned, Owns

LEMMA HoldersStep ==
  ASSUME TypeOK, ThreadInv, NEW z \in Slots, Owned(z), Holders(z), [Next]_vars
  PROVE  Holders(z)'
<1> USE Constants, FreshNumber, OneHolder DEF Holders, ThreadInv, Commanding, TypeOK
<1>1. ASSUME NEW c \in Clients, rpc[c] # "put",
             Leave(c, "read") \/ Leave(c, "closed"), UNCHANGED <<entry, entityVars>>
      PROVE  Holders(z)'
  BY <1>1 DEF Leave, entityVars
<1>2. ASSUME NEW c \in Clients, NEW s \in Registers[c], Register(c, s)
      PROVE  Holders(z)'
  BY <1>2 DEF Register, entityVars
<1>3. ASSUME NEW c \in Clients, LookUp(c)
      PROVE  Holders(z)'
  BY <1>3 DEF LookUp, entityVars
<1>4. ASSUME NEW c \in Clients, Destroy(c)
      PROVE  Holders(z)'
  BY <1>4 DEF Destroy, entityVars
<1>5. ASSUME NEW c \in Clients, Unset(c)
      PROVE  Holders(z)'
  BY <1>5 DEF Unset, entityVars
<1>6. ASSUME NEW c \in Clients, Create(c)
      PROVE  Holders(z)'
  BY <1>6 DEF Create, entityVars
<1>7. ASSUME NEW c \in Clients, Put(c)
      PROVE  Holders(z)'
  BY <1>7 DEF Put, Leave, entityVars
<1>8. ASSUME NEW c \in Clients, NEW t \in Topics, FindPublisher(c, t)
      PROVE  Holders(z)'
  <2>1. <<"publishers", t>> \in Slots
    BY <1>8 DEF FindPublisher, Slots
  <2> QED
    BY <1>8, <2>1 DEF FindPublisher, entityVars
<1>9. CASE UNCHANGED vars
  BY <1>9 DEF vars, entityVars, clientVars
<1> QED
  BY <1>1, <1>2, <1>3, <1>4, <1>5, <1>6, <1>7, <1>8, <1>9
     DEF Next, ClientStep, Disconnect, Reconnect, CreateRaises, Publish

LEMMA OrphansStep ==
  ASSUME TypeOK, ThreadInv, SlotInv, FreshInv, DeadInv,
         NEW z \in Slots, Owned(z), Holders(z), NoOrphan(z), [Next]_vars
  PROVE  NoOrphan(z)'
<1> USE Constants, FreshNumber, OneHolder DEF NoOrphan, Holders, ThreadInv, Commanding,
              TypeOK, SlotInv, FreshInv, DeadInv
<1>1. ASSUME NEW c \in Clients, rpc[c] # "put",
             Leave(c, "read") \/ Leave(c, "closed"), UNCHANGED <<entry, entityVars>>
      PROVE  NoOrphan(z)'
  BY <1>1 DEF Leave, entityVars
<1>2. ASSUME NEW c \in Clients, NEW s \in Registers[c], Register(c, s)
      PROVE  NoOrphan(z)'
  BY <1>2 DEF Register, entityVars
<1>3. ASSUME NEW c \in Clients, LookUp(c)
      PROVE  NoOrphan(z)'
  BY <1>3 DEF LookUp, entityVars
<1>4. ASSUME NEW c \in Clients, Destroy(c)
      PROVE  NoOrphan(z)'
  BY <1>4 DEF Destroy, entityVars
<1>5. ASSUME NEW c \in Clients, Unset(c)
      PROVE  NoOrphan(z)'
  BY <1>5 DEF Unset, entityVars
<1>6. ASSUME NEW c \in Clients, Create(c)
      PROVE  NoOrphan(z)'
  BY <1>6 DEF Create, entityVars
<1>7. ASSUME NEW c \in Clients, Put(c)
      PROVE  NoOrphan(z)'
  BY <1>7 DEF Put, Leave, entityVars
<1>8. ASSUME NEW c \in Clients, NEW t \in Topics, FindPublisher(c, t)
      PROVE  NoOrphan(z)'
  <2>1. <<"publishers", t>> \in Slots
    BY <1>8 DEF FindPublisher, Slots
  <2> QED
    BY <1>8, <2>1 DEF FindPublisher, entityVars
<1>9. CASE UNCHANGED vars
  BY <1>9 DEF vars, entityVars, clientVars
<1> QED
  BY <1>1, <1>2, <1>3, <1>4, <1>5, <1>6, <1>7, <1>8, <1>9
     DEF Next, ClientStep, Disconnect, Reconnect, CreateRaises, Publish

LEMMA PublishStep ==
  ASSUME TypeOK, ThreadInv, SlotInv, PublishInv, [Next]_vars
  PROVE  PublishInv'
<1> USE Constants, FreshNumber DEF PublishInv, Owns, ThreadInv, Commanding, TypeOK, SlotInv
<1>1. ASSUME NEW c \in Clients, rpc[c] # "put",
             Leave(c, "read") \/ Leave(c, "closed"), UNCHANGED <<entry, entityVars>>
      PROVE  PublishInv'
  BY <1>1 DEF Leave, entityVars
<1>2. ASSUME NEW c \in Clients, NEW s \in Registers[c], Register(c, s)
      PROVE  PublishInv'
  BY <1>2 DEF Register, entityVars
<1>3. ASSUME NEW c \in Clients, LookUp(c)
      PROVE  PublishInv'
  BY <1>3 DEF LookUp, entityVars
<1>4. ASSUME NEW c \in Clients, Destroy(c)
      PROVE  PublishInv'
  BY <1>4 DEF Destroy, entityVars
<1>5. ASSUME NEW c \in Clients, Unset(c)
      PROVE  PublishInv'
  BY <1>5 DEF Unset, entityVars
<1>6. ASSUME NEW c \in Clients, Create(c)
      PROVE  PublishInv'
  BY <1>6 DEF Create, entityVars
<1>7. ASSUME NEW c \in Clients, Put(c)
      PROVE  PublishInv'
  BY <1>7 DEF Put, Leave, entityVars
<1>8. ASSUME NEW c \in Clients, NEW t \in Topics, FindPublisher(c, t)
      PROVE  PublishInv'
  <2>1. <<"publishers", t>> \in Slots
    BY <1>8 DEF FindPublisher, Slots
  <2> QED
    BY <1>8, <2>1 DEF FindPublisher, entityVars
<1>9. CASE UNCHANGED vars
  BY <1>9 DEF vars, entityVars, clientVars
<1> QED
  BY <1>1, <1>2, <1>3, <1>4, <1>5, <1>6, <1>7, <1>8, <1>9
     DEF Next, ClientStep, Disconnect, Reconnect, CreateRaises, Publish

-----------------------------------------------------------------------------
(* The inductive invariant, and what follows from it.                      *)

LEMMA InitInv == Init => Inv
<1> SUFFICES ASSUME Init PROVE Inv
  OBVIOUS
<1> USE Constants DEF Init, Commanding
<1>1. TypeOK
  BY DEF TypeOK, Entities
<1>2. ThreadInv /\ SlotInv /\ FreshInv /\ DeadInv /\ PublishInv
  BY DEF ThreadInv, SlotInv, FreshInv, DeadInv, PublishInv
<1>3. DeadIsReplaced
  BY DEF DeadIsReplaced, Entities, Slots
<1>4. OwnInv
  BY DEF OwnInv, NoOrphan, Holders
<1> QED
  BY <1>1, <1>2, <1>3, <1>4 DEF Inv

LEMMA StepInv == Inv /\ [Next]_vars => Inv'
<1> SUFFICES ASSUME Inv, [Next]_vars PROVE Inv'
  OBVIOUS
<1> USE DEF Inv
<1>1. TypeOK' /\ ThreadInv'
  BY TypeStep, ThreadStep
<1>2. SlotInv' /\ FreshInv' /\ DeadInv' /\ PublishInv'
  BY SlotStep, FreshStep, DeadStep, PublishStep
<1>3. DeadIsReplaced'
  <2>1. ASSUME NEW z \in Tables \X (Topics \ Failing)
        PROVE  Replaced(z)'
    BY ReplacedStep DEF DeadIsReplaced, Replaced
  <2> QED
    BY <2>1 DEF DeadIsReplaced, Replaced
<1>4. OwnInv'
  <2>1. ASSUME NEW z \in Slots, Owned(z)
        PROVE  NoOrphan(z)' /\ Holders(z)'
    <3>1. NoOrphan(z) /\ Holders(z)
      BY <2>1 DEF OwnInv
    <3>2. Holders(z)'
      BY <2>1, <3>1, HoldersStep
    <3>3. NoOrphan(z)'
      BY <2>1, <3>1, OrphansStep
    <3> QED
      BY <3>2, <3>3
  <2> QED
    BY <2>1 DEF OwnInv, Owned, Owns
<1> QED
  BY <1>1, <1>2, <1>3, <1>4

\* The invariant holds in every reachable state.
LEMMA Invariant == Spec => []Inv
BY InitInv, StepInv, PTL DEF Spec

\* Every reachable state is well typed.
THEOREM TypeCorrect == Spec => []TypeOK
<1>1. Inv => TypeOK
  BY DEF Inv
<1> QED
  BY <1>1, Invariant, PTL

\* However many client threads register a topic at once, its table entry is dead
\* only while one of them is about to replace it.
THEOREM DeadEntriesAreReplaced == Spec => []DeadIsReplaced
<1>1. Inv => DeadIsReplaced
  BY DEF Inv
<1> QED
  BY <1>1, Invariant, PTL

\* A live entity that is in the table and one that is about to be put there are
\* not of the same owned topic: the thread that puts has unregistered the first.
LEMMA OneLive ==
  ASSUME Inv, NEW s \in Slots, Owned(s),
         NEW e \in live, NEW f \in live, slot[e] = s, slot[f] = s
  PROVE  e = f
<1>1. ASSUME NEW c \in Clients, new[c] \in live, slot[new[c]] = s
      PROVE  target[c] = s /\ rpc[c] = "put" /\ entry[s] \notin live
  <2>1. new[c] # None
    BY <1>1, FreshNumber DEF Inv, TypeOK
  <2>2. rpc[c] = "put" /\ target[c] = s
    BY <1>1, <2>1 DEF Inv, ThreadInv, SlotInv
  <2>3. found[c] = entry[s]
    BY <2>2 DEF Inv, OwnInv, Holders
  <2> QED
    BY <2>2, <2>3 DEF Inv, DeadInv
<1>2. ASSUME NEW c \in Clients, NEW d \in Clients, e = new[c], f = new[d]
      PROVE  e = f
  <2>1. target[c] = s /\ target[d] = s
    BY <1>1, <1>2
  <2> QED
    BY <1>2, <2>1, OneHolder DEF Inv
<1> QED
  BY <1>1, <1>2 DEF Inv, OwnInv, NoOrphan

\* A topic that one client registers has one ROS entity, through replacements,
\* failing constructors and reconnections.
THEOREM OwnedTopicsAreOnce == Spec => []OwnedOnce
<1>1. Inv => OwnedOnce
  BY OneLive DEF Inv, OwnInv, OwnedOnce, Owned, OneEntity, NoOrphan
<1> QED
  BY <1>1, Invariant, PTL

\* The client that registers a topic never publishes into a destroyed publisher.
THEOREM OwnersPublish == Spec => []OwnerPublishes
<1>1. Inv => OwnerPublishes
  <2> SUFFICES ASSUME Inv, NEW c \in Clients, NEW t \in Topics \ Failing,
                      rpc[c] = "publish", slot[found[c]] = <<"publishers", t>>,
                      Owns(c, <<"publishers", t>>)
               PROVE  found[c] \in live
    BY DEF OwnerPublishes
  <2> DEFINE s == <<"publishers", t>>
  <2>1. found[c] \in Entities
    BY Constants DEF Inv, ThreadInv, TypeOK
  <2>2. s \in Slots /\ s \in Tables \X (Topics \ Failing) /\ s # None
    BY <2>1, Constants DEF Inv, TypeOK, Slots
  <2>3. found[c] = entry[s]
    BY <2>2 DEF Inv, PublishInv
  <2>4. ASSUME NEW d \in Clients, target[d] = s
        PROVE  d = c /\ rpc[d] \in Commanding
    BY <2>2, <2>4 DEF Inv, ThreadInv, Owns
  <2>5. ~ \E d \in Clients : rpc[d] \in {"unset", "create", "put"} /\ target[d] = s
    BY <2>4 DEF Commanding
  <2> QED
    BY <2>1, <2>2, <2>3, <2>5 DEF Inv, DeadIsReplaced
<1> QED
  BY <1>1, Invariant, PTL
=============================================================================
