------------------------------ MODULE LuaEvent -------------------------------
(***************************************************************************)
(* The Lua binding of events (server/src/lua/event.cpp).  A script sees an *)
(* object's event as a userdata holding a pointer to an EventData: a weak  *)
(* pointer to the object and a reference to the event, which is a member   *)
(* of the object.  Indexing it with "connect" or "disconnect" gives a C    *)
(* closure whose upvalue is a second, fresh userdata for the same event.   *)
(* connect creates an EventHandler, connects it to the event and returns   *)
(* the token the sandbox registers it under; disconnect looks the token up *)
(* and disconnects the handler when it belongs to the closure's event,     *)
(* compared by address.  Every entry point first checks the weak pointer   *)
(* (Event::check) and raises a Lua error for a destroyed object.           *)
(*                                                                         *)
(* Objects, the sandbox's handler registry and EventHandler are not in the *)
(* repository.  Objects are created and destroyed by the rest of the       *)
(* server; a new object may be placed at the address of a destroyed one.   *)
(* Handlers are identified by tokens returned at connect and consumed at   *)
(* disconnect (spec 9).  What the registry does with the handlers of an    *)
(* event whose object is destroyed is left open: HandlersOutliveEvents.    *)
(* A Lua error, and indexing with any other name (nil), change nothing.    *)
(***************************************************************************)
EXTENDS Naturals, Sequences, FiniteSets, TLC

CONSTANTS
  Objects,               \* the objects whose events scripts may reach
  Addrs,                 \* the addresses an object may be placed at
  MaxData,               \* bound on EventData allocations
  MaxHandlers,           \* bound on connect calls; tokens are 1..MaxHandlers
  HandlersOutliveEvents, \* TRUE: a destroyed object's handlers stay registered
  None                   \* no object: the token disconnect was given is unknown

ASSUME MaxData \in Nat /\ MaxHandlers \in Nat /\ HandlersOutliveEvents \in BOOLEAN
ASSUME None \notin Objects

VARIABLES
  life,      \* object -> "new" | "alive" | "dead"
  at,        \* object -> its address (kept after it is destroyed)
  data,      \* the EventData allocations, in order: [obj, freed]
  held,      \* the values the script holds: event userdata and closures
  handlers,  \* EventHandlers, by token: the object whose event it is connected to
  reg,       \* the tokens the sandbox still holds a handler for
  misuse,    \* history: a call reached the event of a destroyed object
  returned   \* history: the last disconnect, [via, of, ok]

vars == <<life, at, data, held, handlers, reg, misuse, returned>>

Tokens == 1..MaxHandlers

\* A Lua value referring to EventData d: the event userdata itself, or a
\* connect / disconnect closure with d as its upvalue.
Values == [kind : {"event", "connect", "disconnect"}, d : 1..MaxData]

\* new EventData(event): the object's weak pointer and the event reference,
\* both identified by the object the event belongs to.
NewEventData(o) == [obj |-> o, freed |-> FALSE]

\* Event::check / Event::test: the weak pointer has not expired.
Live(d) == life[data[d].obj] = "alive"

-----------------------------------------------------------------------------
(* The binding.                                                            *)

\* Event::push: the script receives the event of a live object in a new
\* userdata pointing at a new EventData.
Push(o) ==
  /\ life[o] = "alive"
  /\ Len(data) < MaxData
  /\ data' = Append(data, NewEventData(o))
  /\ held' = held \cup {[kind |-> "event", d |-> Len(data) + 1]}
  /\ UNCHANGED <<life, at, handlers, reg, misuse, returned>>

\* Event::__index: check(L, 1), then push(L, event) as the upvalue of a
\* connect or disconnect closure.
Index(v, name) ==
  /\ v \in held /\ v.kind = "event"
  /\ Live(v.d)
  /\ Len(data) < MaxData
  /\ data' = Append(data, NewEventData(data[v.d].obj))
  /\ held' = held \cup {[kind |-> name, d |-> Len(data) + 1]}
  /\ UNCHANGED <<life, at, handlers, reg, misuse, returned>>

\* Event::__gc: Lua collects a userdata nothing refers to and the EventData
\* it points to is deleted.
Gc(d) ==
  /\ d \in DOMAIN data /\ ~data[d].freed
  /\ \A v \in held : v.d # d
  /\ data' = [data EXCEPT ![d].freed = TRUE]
  /\ UNCHANGED <<life, at, held, handlers, reg, misuse, returned>>

\* Mutant: the handler is registered under the token before its own.
ConnectTokenOffByOne(c) ==
  /\ c \in held /\ c.kind = "connect"
  /\ Live(c.d)
  /\ Len(handlers) < MaxHandlers
  /\ handlers' = Append(handlers, data[c.d].obj)
  /\ reg' = reg \cup {Len(handlers)}
  /\ UNCHANGED <<life, at, data, held, misuse, returned>>

\* Mutant: connect does not check the upvalue's weak pointer.
ConnectUnchecked(c) ==
  /\ c \in held /\ c.kind = "connect"
  /\ Len(handlers) < MaxHandlers
  /\ handlers' = Append(handlers, data[c.d].obj)
  /\ reg' = reg \cup {Len(handlers) + 1}
  /\ misuse' = (misuse \/ ~Live(c.d))
  /\ UNCHANGED <<life, at, data, held, returned>>

\* Event::connect: check the upvalue, make an EventHandler for the event,
\* event.connect(handler), and return the token registerEventHandler gives.
Connect(c) ==
  /\ c \in held /\ c.kind = "connect"
  /\ Live(c.d)
  /\ Len(handlers) < MaxHandlers
  /\ handlers' = Append(handlers, data[c.d].obj)
  /\ reg' = reg \cup {Len(handlers) + 1}
  /\ UNCHANGED <<life, at, data, held, misuse, returned>>

\* EventHandler::disconnect, for the handler of token t: disconnects it
\* from its event and consumes the token.  On the event of a destroyed
\* object the call is undefined behaviour and its result any boolean.
HandlerDisconnect(t, ok) ==
  /\ reg' = reg \ {t}
  /\ misuse' = (misuse \/ life[handlers[t]] = "dead")
  /\ ok \in IF life[handlers[t]] = "dead" THEN BOOLEAN ELSE {TRUE}

\* Mutant: disconnect does not compare the handler's event with its own.
DisconnectAnyEvent(c, t) ==
  /\ c \in held /\ c.kind = "disconnect"
  /\ Live(c.d)
  /\ LET ev == data[c.d].obj IN
     \/ /\ t \in reg
        /\ \E ok \in BOOLEAN :
             /\ HandlerDisconnect(t, ok)
             /\ returned' = [via |-> ev, of |-> handlers[t], ok |-> ok]
     \/ /\ t \notin reg
        /\ returned' = [via |-> ev, of |-> None, ok |-> FALSE]
        /\ UNCHANGED <<reg, misuse>>
  /\ UNCHANGED <<life, at, data, held, handlers>>

\* Event::disconnect: check the upvalue, look the token up, and return
\* handler && &handler->event() == &event && handler->disconnect().
Disconnect(c, t) ==
  /\ c \in held /\ c.kind = "disconnect"
  /\ Live(c.d)
  /\ LET ev == data[c.d].obj
         match == t \in reg /\ at[handlers[t]] = at[ev]
     IN \/ /\ match
           /\ \E ok \in BOOLEAN :
                /\ HandlerDisconnect(t, ok)
                /\ returned' = [via |-> ev, of |-> handlers[t], ok |-> ok]
        \/ /\ ~match
           /\ returned' = [via |-> ev, of |-> IF t \in reg THEN handlers[t] ELSE None,
                           ok |-> FALSE]
           /\ UNCHANGED <<reg, misuse>>
  /\ UNCHANGED <<life, at, data, held, handlers>>

-----------------------------------------------------------------------------
(* The rest of the server and the script.                                  *)

\* An object is created at an address no live object occupies.
Create(o, a) ==
  /\ life[o] = "new"
  /\ \A p \in Objects : life[p] = "alive" => at[p] # a
  /\ life' = [life EXCEPT ![o] = "alive"]
  /\ at' = [at EXCEPT ![o] = a]
  /\ UNCHANGED <<data, held, handlers, reg, misuse, returned>>

\* An object is destroyed, and its event with it; the weak pointers to it
\* expire.  Unless HandlersOutliveEvents, its handlers' tokens go with it.
Destroy(o) ==
  /\ life[o] = "alive"
  /\ life' = [life EXCEPT ![o] = "dead"]
  /\ reg' = IF HandlersOutliveEvents THEN reg
            ELSE {t \in reg : handlers[t] # o}
  /\ UNCHANGED <<at, data, held, handlers, misuse, returned>>

\* The script lets go of a value.
Drop(v) ==
  /\ v \in held
  /\ held' = held \ {v}
  /\ UNCHANGED <<life, at, data, handlers, reg, misuse, returned>>

-----------------------------------------------------------------------------

Init ==
  /\ life = [o \in Objects |-> "new"]
  /\ at = [o \in Objects |-> CHOOSE a \in Addrs : TRUE]
  /\ data = <<>>
  /\ held = {}
  /\ handlers = <<>>
  /\ reg = {}
  /\ misuse = FALSE
  /\ returned = [via |-> None, of |-> None, ok |-> FALSE]

Next ==
  \/ \E o \in Objects : Push(o) \/ Destroy(o)
  \/ \E o \in Objects, a \in Addrs : Create(o, a)
  \/ \E v \in held : Drop(v) \/ \E name \in {"connect", "disconnect"} : Index(v, name)
  \/ \E d \in DOMAIN data : Gc(d)
  \/ \E c \in held : Connect(c) \/ \E t \in Tokens : Disconnect(c, t)

Spec == Init /\ [][Next]_vars

-----------------------------------------------------------------------------
(* Properties.                                                             *)

TypeOK ==
  /\ life \in [Objects -> {"new", "alive", "dead"}]
  /\ at \in [Objects -> Addrs]
  /\ data \in Seq([obj : Objects, freed : BOOLEAN]) /\ Len(data) <= MaxData
  /\ held \subseteq Values
  /\ handlers \in Seq(Objects) /\ Len(handlers) <= MaxHandlers
  /\ reg \subseteq DOMAIN handlers
  /\ misuse \in BOOLEAN

\* Whatever the script does with the closures it keeps, and whenever the
\* objects behind them are destroyed, connect and disconnect never call
\* into the event of a destroyed object (event.connect, handler->disconnect).
NoDeadEventUse == ~misuse

\* disconnect returns true only for a handler that was connected to the
\* very event the closure belongs to, not to another object's event.
DisconnectOwnHandler == returned.ok => returned.of = returned.via

=============================================================================
