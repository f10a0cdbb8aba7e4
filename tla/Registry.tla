------------------------------ MODULE Registry ------------------------------
(***************************************************************************)
(* The tables of TcpServer and the commands of SysCommands that fill them  *)
(* (server.py): subscribe, publish, ros_service and unity_service. Each    *)
(* looks its topic up, unregisters what it finds, makes a new entity and   *)
(* puts it into the table. The client threads of all connections run these *)
(* commands on the same tables, without a lock.                            *)
(*                                                                         *)
(* Abstracted: message classes and QoS. A blank topic, an unknown class    *)
(* and a message for a topic without a publisher are answered with an      *)
(* error message and change nothing here, which is a stuttering step.      *)
(***************************************************************************)
EXTENDS Naturals

CONSTANTS
  Clients,      \* client threads that may run at a time; a new connection
                \* takes over the name of one that has ended
  Tables,       \* of "subscribers", "publishers", "ros_services",
                \* "unity_services"
  Topics,
  Registers,    \* per client, the slots it sends registrations for
  Failing,      \* topics whose constructors may raise
  None,         \* Python's None
  MaxEntities   \* bound on the entities made

Slots == Tables \X Topics

ASSUME RegistryAssumption ==
  /\ Registers \in [Clients -> SUBSET Slots]
  /\ Failing \subseteq Topics
  /\ None \notin Nat \cup Slots
  /\ MaxEntities \in Nat

VARIABLES
  entry,    \* per slot, the table's entity, or None if the topic has none
  slot,     \* per entity made, the slot it was made for
  live,     \* the entities whose publisher, subscription, client or service
            \* exists in the ROS node
  unset,    \* the entities whose self.pub, self.sub, ... is None again
  made,     \* number of entities made; numbers them
  rpc,      \* per client, where its thread is
  target,   \* per client, the slot of its command
  found,    \* per client, the entity it has looked up
  new       \* per client, the entity it has made

entityVars == <<slot, live, unset, made>>
clientVars == <<rpc, target, found, new>>
vars == <<entry, entityVars, clientVars>>

Init ==
  /\ entry = [s \in Slots |-> None]
  /\ slot  = <<>>
  /\ live  = {}
  /\ unset = {}
  /\ made  = 0
  /\ rpc    = [c \in Clients |-> "read"]
  /\ target = [c \in Clients |-> None]
  /\ found  = [c \in Clients |-> None]
  /\ new    = [c \in Clients |-> None]

-----------------------------------------------------------------------------
\* The thread goes on to read the next message, or ends.
Leave(c, where) ==
  /\ rpc'    = [rpc EXCEPT ![c] = where]
  /\ target' = [target EXCEPT ![c] = None]
  /\ found'  = [found EXCEPT ![c] = None]
  /\ new'    = [new EXCEPT ![c] = None]

\* A thread ends when its read fails; a later connection starts another.
Disconnect(c) ==
  /\ rpc[c] = "read"
  /\ Leave(c, "closed")
  /\ UNCHANGED <<entry, entityVars>>

Reconnect(c) ==
  /\ rpc[c] = "closed"
  /\ Leave(c, "read")
  /\ UNCHANGED <<entry, entityVars>>

-----------------------------------------------------------------------------
(* subscribe, publish, ros_service, unity_service.                         *)

\* A valid command arrives.
Register(c, s) ==
  /\ rpc[c] = "read"
  /\ target' = [target EXCEPT ![c] = s]
  /\ rpc' = [rpc EXCEPT ![c] = "lookup"]
  /\ UNCHANGED <<entry, entityVars, found, new>>

\* Fault: the key of the table instead of its value.
LookUpKey(c) ==
  /\ rpc[c] = "lookup"
  /\ found' = [found EXCEPT ![c] = target[c]]
  /\ rpc' = [rpc EXCEPT ![c] = IF entry[target[c]] = None THEN "create"
                                                          ELSE "unregister"]
  /\ UNCHANGED <<entry, entityVars, target, new>>

\* old_node = table.get(topic)
LookUp(c) ==
  /\ rpc[c] = "lookup"
  /\ found' = [found EXCEPT ![c] = entry[target[c]]]
  /\ rpc' = [rpc EXCEPT ![c] = IF entry[target[c]] = None THEN "create"
                                                          ELSE "unregister"]
  /\ UNCHANGED <<entry, entityVars, target, new>>

\* Fault: the old entity is only dropped from the table.
DestroyNothing(c) ==
  /\ rpc[c] = "unregister"
  /\ rpc' = [rpc EXCEPT ![c] = "unset"]
  /\ UNCHANGED <<entry, entityVars, target, found, new>>

\* unregister: if its handle is not None, the ROS entity is destroyed. To
\* destroy one that another thread has destroyed since does nothing.
Destroy(c) ==
  /\ rpc[c] = "unregister"
  /\ live' = live \ {found[c]}
  /\ rpc' = [rpc EXCEPT ![c] = IF found[c] \in unset THEN "create" ELSE "unset"]
  /\ UNCHANGED <<entry, slot, unset, made, target, found, new>>

\* Fault: the command stops at an entity it has unregistered.
UnsetReturns(c) ==
  /\ rpc[c] = "unset"
  /\ unset' = unset \cup {found[c]}
  /\ Leave(c, "read")
  /\ UNCHANGED <<entry, slot, live, made>>

\* ... and the handle set to None.
Unset(c) ==
  /\ rpc[c] = "unset"
  /\ unset' = unset \cup {found[c]}
  /\ rpc' = [rpc EXCEPT ![c] = "create"]
  /\ UNCHANGED <<entry, slot, live, made, target, found, new>>

\* The constructor makes the ROS entity.
Create(c) ==
  /\ rpc[c] = "create"
  /\ made < MaxEntities
  /\ made' = made + 1
  /\ slot' = [e \in 1 .. made' |-> IF e = made' THEN target[c] ELSE slot[e]]
  /\ live' = live \cup {made'}
  /\ new'  = [new EXCEPT ![c] = made']
  /\ rpc'  = [rpc EXCEPT ![c] = "put"]
  /\ UNCHANGED <<entry, unset, target, found>>

\* The constructor raises, which ends the client thread. The old entity stays
\* in the table.
CreateRaises(c) ==
  /\ rpc[c] = "create"
  /\ target[c] \in Tables \X Failing
  /\ Leave(c, "closed")
  /\ UNCHANGED <<entry, entityVars>>

\* Fault: setdefault, which keeps an entry that is there.
PutDefault(c) ==
  /\ rpc[c] = "put"
  /\ entry' = [entry EXCEPT ![target[c]] = IF @ = None THEN new[c] ELSE @]
  /\ Leave(c, "read")
  /\ UNCHANGED entityVars

\* table[topic] = new
Put(c) ==
  /\ rpc[c] = "put"
  /\ entry' = [entry EXCEPT ![target[c]] = new[c]]
  /\ Leave(c, "read")
  /\ UNCHANGED entityVars

-----------------------------------------------------------------------------
(* A message from Unity for a topic it publishes.                          *)

FindPublisher(c, t) ==
  /\ rpc[c] = "read"
  /\ "publishers" \in Tables
  /\ entry[<<"publishers", t>>] # None
  /\ found' = [found EXCEPT ![c] = entry[<<"publishers", t>>]]
  /\ rpc' = [rpc EXCEPT ![c] = "publish"]
  /\ UNCHANGED <<entry, entityVars, target, new>>

\* RosPublisher.send: to publish through a destroyed publisher, or one that is
\* None, raises and ends the client thread.
Publish(c) ==
  /\ rpc[c] = "publish"
  /\ Leave(c, IF found[c] \in live THEN "read" ELSE "closed")
  /\ UNCHANGED <<entry, entityVars>>

-----------------------------------------------------------------------------
ClientStep(c) ==
  \/ LookUp(c)
  \/ Destroy(c)
  \/ Unset(c)
  \/ Create(c)
  \/ CreateRaises(c)
  \/ Put(c)
  \/ Publish(c)

Next ==
  \E c \in Clients :
    \/ Disconnect(c)
    \/ Reconnect(c)
    \/ \E s \in Registers[c] : Register(c, s)
    \/ \E t \in Topics : FindPublisher(c, t)
    \/ ClientStep(c)

Spec == Init /\ [][Next]_vars

\* A client thread carries out what it has begun. Nothing obliges Unity to send
\* anything, to leave or to return.
Fairness == \A c \in Clients : WF_vars(ClientStep(c))

FairSpec == Spec /\ Fairness

-----------------------------------------------------------------------------
(* Properties.                                                             *)

Entities == 1 .. made

TypeOK ==
  /\ made \in Nat
  /\ entry \in [Slots -> Entities \cup {None}]
  /\ slot  \in [Entities -> Slots]
  /\ live  \in SUBSET Entities
  /\ unset \in SUBSET Entities
  /\ rpc   \in [Clients -> {"read", "lookup", "unregister", "unset", "create",
                            "put", "publish", "closed"}]
  /\ target \in [Clients -> Slots \cup {None}]
  /\ found  \in [Clients -> Entities \cup {None}]
  /\ new    \in [Clients -> Entities \cup {None}]

\* Every live entity made for s is in the table or about to be put there, and
\* there is one at most: nothing forwards a topic twice, and nothing is left
\* that a later registration would not find and unregister.
OneEntity(s) ==
  /\ \A e \in live :
       slot[e] = s => entry[s] = e \/ \E c \in Clients : new[c] = e
  /\ \A e, f \in live : slot[e] = s /\ slot[f] = s => e = f

\* c is the only client that registers s.
Owns(c, s) == \A d \in Clients : s \in Registers[d] => d = c

\* server.py:197, "Replace existing subscription if present": a topic that one
\* client registers has one entity, through replacements, failing constructors
\* and reconnections. (Two clients that register a topic at once may both find
\* none, and leave two.)
OwnedOnce == \A s \in Slots : (\E c \in Clients : Owns(c, s)) => OneEntity(s)

\* The client that registers a topic never publishes into a destroyed publisher,
\* unless a constructor has failed.
OwnerPublishes ==
  \A c \in Clients, t \in Topics \ Failing :
    LET s == <<"publishers", t>> IN
    (rpc[c] = "publish" /\ slot[found[c]] = s /\ Owns(c, s)) => found[c] \in live

\* A table entry is dead only while some thread is about to replace it, however
\* many register the topic at once; a failed constructor apart.
DeadIsReplaced ==
  \A s \in Tables \X (Topics \ Failing) :
    entry[s] \in Entities \ live =>
      \E c \in Clients : /\ rpc[c] \in {"unset", "create", "put"}
                         /\ target[c] = s
                         /\ found[c] = entry[s]

\* ... and so a topic, once registered, gets a live entity again. MaxEntities is
\* the model's bound.
EntryRecovers ==
  \A s \in Tables \X (Topics \ Failing) :
    entry[s] # None ~> (entry[s] \in live \/ made = MaxEntities)
=============================================================================
