------------------------------- MODULE TcamProp -------------------------------
(***************************************************************************)
(* The tcam property interface of an open camera: tcam_property_provider   *)
(* hands out one GObject per property, kept in flyweight_container_, and   *)
(* every use of it goes through the guard of the list it came from.        *)
(* Threads read and set properties by name, hold nodes for as long as they *)
(* like and set or read all settings at once, while the element opens and  *)
(* closes the camera.                                                      *)
(***************************************************************************)
EXTENDS Integers, Sequences, FiniteSets

CONSTANTS
  TpThreads,
  TpNames,       \* the names that are asked for one by one
  TpProps,       \* properties: [name -> [type, access, max, lockedBy]]; the switches
                 \* in lockedBy lock it while they are on
  TpCameras,     \* cameras, each the names of the properties it has
  TpLists,       \* structures of settings: sequences of [name, gtype, n], n standing
                 \* for the number, or for the n-th name of an enumeration
  TpCalls,       \* bound on the calls
  TpOpens        \* bound on how often the camera is opened

Nobody == 0

ASSUME TpAssumption ==
  /\ IsFiniteSet(TpThreads) /\ Nobody \notin TpThreads /\ TpOpens \in Nat
  /\ TpCameras \subseteq SUBSET DOMAIN TpProps

VARIABLES
  tpOpen,        \* the camera that is open, 0 for none; the interface list is its
  tpOpened,      \* how many have been opened
  tpData,        \* data_: the camera whose list the provider offers, 0 for nullptr
  tpClosed,      \* the lists whose guard is marked closed
  tpCache,       \* flyweight_container_: the names that have a node
  tpRefs,        \* the reference count of each node
  tpHas,         \* the properties of the camera that was opened last
  tpVal,         \* their values
  tpPending,     \* prop_init_: the settings for the next camera
  tpCloser,      \* where close() is
  tpThread,      \* what each thread is at
  tpCalls,
  tpOdd          \* ghost: nodes asked for with a wrong type, or created twice

tpVars == <<tpOpen, tpOpened, tpData, tpClosed, tpCache, tpRefs, tpHas, tpVal,
            tpPending, tpCloser, tpThread, tpCalls, tpOdd>>

TpNodes == (1..TpOpens) \X (DOMAIN TpProps) \X ({Nobody} \cup TpThreads)
NoNode == <<0, "", Nobody>>

(* node: what fetch_item returned; held: a node the caller keeps; todo:    *)
(* the entries still to be treated; retry: retry_list; won:                *)
(* at_least_one_success.  Ghosts: asked, the whole structure; calm, no     *)
(* other thread wrote and the camera stayed open since.                    *)
IdleThread == [pc |-> "idle", op |-> "", node |-> NoNode, held |-> NoNode, todo |-> <<>>,
               retry |-> <<>>, won |-> FALSE, asked |-> <<>>, calm |-> FALSE]

TpInit ==
  /\ tpOpen = 0 /\ tpOpened = 0 /\ tpData = 0 /\ tpClosed = {}
  /\ tpCache = {} /\ tpRefs = [n \in TpNodes |-> 0]
  /\ tpHas = {} /\ tpVal = <<>>
  /\ tpPending = <<>> /\ tpCloser = "idle"
  /\ tpThread = [t \in TpThreads |-> IdleThread]
  /\ tpCalls = 0 /\ tpOdd = {}

cameraVars == <<tpHas, tpOpen, tpOpened, tpData, tpClosed, tpCache, tpPending, tpCloser>>
at(t, pc) == tpThread[t].pc = pc
entry(t) == Head(tpThread[t].todo)
goes(t, th) == tpThread' = [tpThread EXCEPT ![t] = th]

(* Who holds data_mtx_, and the mutex of the guard of list g, shared; the  *)
(* destructor of the list is run with data_mtx_ held alone.                *)
Fetching == {t \in TpThreads : at(t, "create")}
Guarded(g) == {t \in TpThreads : \/ at(t, "create") /\ tpData = g
                                 \/ at(t, "use") /\ tpThread[t].node[1] = g}
ListLocked == tpCloser = "destroy"

-----------------------------------------------------------------------------
\* the wrappers of mainsrc_tcamprop_impl around the properties of the camera

Ok(n) == [err |-> "none", n |-> n]
Err(e) == [err |-> e, n |-> 0]

(* is_locked(get_flags())                                                  *)
is_locked(val, name) == \E s \in TpProps[name].lockedBy : val[s] = 1

IfWriteable(name, res) == IF is_locked(tpVal, name) THEN Err("PropertyNotWriteable") ELSE res
WithinRange(name, n) == IF n \in 0..TpProps[name].max THEN Ok(n) ELSE Err("PropertyValueOutOfBounds")

TcamPropertyBoolean(name, n) == IfWriteable(name, Ok(IF n = 0 THEN 0 ELSE 1))
TcamPropertyInteger(name, n) == IfWriteable(name, WithinRange(name, n))
TcamPropertyFloat(name, n) == IfWriteable(name, WithinRange(name, n))
TcamPropertyEnumeration(name, n) == IfWriteable(name, WithinRange(name, n))
TcamPropertyCommand(name) == IfWriteable(name, Ok(tpVal[name]))
TcamPropertyString(name, n) == IfWriteable(name, Ok(n))

(* The typed set functions of the nodes.                                   *)
set_property_value(name, n) ==
  LET y == TpProps[name].type
  IN CASE y = "boolean" -> TcamPropertyBoolean(name, n)
       [] y = "integer" -> TcamPropertyInteger(name, n)
       [] y = "float" -> TcamPropertyFloat(name, n)
       [] y = "enumeration" -> TcamPropertyEnumeration(name, n)
       [] y = "command" -> TcamPropertyCommand(name)
       [] y = "string" -> TcamPropertyString(name, n)

(* What g_value_transform converts.                                        *)
Transformable(from, to) ==
  \/ from = to
  \/ to = "string" /\ from # "other"
  \/ {from, to} \subseteq {"bool", "int"} \/ {from, to} \subseteq {"int", "double"}

incompatible == Err("parameter_type_incompatible")

apply_boolean(e) ==
  IF Transformable(e.gtype, "bool") THEN TcamPropertyBoolean(e.name, e.n) ELSE incompatible
apply_integer(e) ==
  IF Transformable(e.gtype, "int") THEN TcamPropertyInteger(e.name, e.n) ELSE incompatible
apply_float(e) ==
  IF Transformable(e.gtype, "double") THEN TcamPropertyFloat(e.name, e.n) ELSE incompatible

(* A name, or an index into get_enum_entries; anything else is neither set *)
(* nor an error.                                                           *)
apply_enumeration(e) ==
  IF e.gtype = "string" THEN TcamPropertyEnumeration(e.name, e.n)
  ELSE IF ~Transformable(e.gtype, "int") THEN Ok(tpVal[e.name])
  ELSE IF e.n \notin 0..TpProps[e.name].max THEN Err("PropertyValueOutOfBounds")
  ELSE TcamPropertyEnumeration(e.name, e.n)

(* fetch_typed<std::string> gives an empty string for what has no text.    *)
apply_string(e) ==
  TcamPropertyString(e.name, IF Transformable(e.gtype, "string") THEN e.n ELSE 0)

(* The switch of apply_entry.                                              *)
apply_value(e) ==
  LET y == TpProps[e.name].type
  IN CASE y = "boolean" -> apply_boolean(e)
       [] y = "integer" -> apply_integer(e)
       [] y = "float" -> apply_float(e)
       [] y = "enumeration" -> apply_enumeration(e)
       [] y = "command" -> TcamPropertyCommand(e.name)
       [] y = "string" -> apply_string(e)

(* error_translator: the code of libtcam that stands for a locked property *)
to_TcamError(err) ==
  CASE err = "PropertyNotWriteable" -> "TCAM_ERROR_PROPERTY_NOT_WRITEABLE"
    [] err = "PropertyValueOutOfBounds" -> "TCAM_ERROR_PROPERTY_VALUE_OUT_OF_RANGE"
    [] OTHER -> "TCAM_ERROR_UNKNOWN"

(* map_error: the codes of tcamprop1.                                      *)
map_error(err) ==
  CASE err = "parameter_type_incompatible" -> "TCAM_ERROR_PROPERTY_TYPE_INCOMPATIBLE"
    [] err = "device_closed" -> "TCAM_ERROR_DEVICE_LOST"

fill_GError(err) ==
  CASE err = "none" -> "none"
    [] err = "parameter_type_incompatible" -> map_error(err)
    [] OTHER -> to_TcamError(err)

-----------------------------------------------------------------------------
\* open_camera and close

(* device_open_mutex_ is held while settings are applied.                  *)
Applying == \E t \in TpThreads : tpThread[t].op = "apply"
applies(t, list) ==
  goes(t, [tpThread[t] EXCEPT !.pc = "fetch", !.op = "apply", !.todo = list, !.asked = list,
                              !.calm = tpCloser = "idle"])

(* open_camera, populate_tcamprop_interface and create_list; then the      *)
(* settings that were given before are applied.                            *)
TpOpenCamera(t) ==
  /\ at(t, "idle") /\ ~Applying
  /\ tpOpen = 0 /\ tpCloser = "idle" /\ tpOpened < TpOpens
  /\ Fetching = {}
  /\ tpOpened' = tpOpened + 1
  /\ tpOpen' = tpOpened + 1 /\ tpData' = tpOpened + 1
  /\ tpCache' = {}
  /\ \E c \in TpCameras, on \in BOOLEAN :
       /\ tpHas' = c
       /\ tpVal' = [n \in c |-> IF on /\ \E m \in c : n \in TpProps[m].lockedBy THEN 1 ELSE 0]
  /\ IF tpPending = <<>> THEN UNCHANGED tpThread ELSE applies(t, tpPending)
  /\ tpPending' = <<>>
  /\ UNCHANGED <<tpClosed, tpRefs, tpCloser, tpCalls, tpOdd>>

(* clear_list takes data_mtx_ alone: nobody is fetching.                   *)
clear_list ==
  /\ tpOpen # 0 /\ tpCloser = "idle" /\ Fetching = {}
  /\ tpCloser' = "destroy"
  /\ tpThread' = [t \in TpThreads |-> [tpThread[t] EXCEPT !.calm = FALSE]]
  /\ UNCHANGED <<tpOpen, tpOpened, tpData, tpClosed, tpCache, tpRefs, tpVal, tpPending,
                 tpHas, tpCalls, tpOdd>>

(* The references flyweight_container_ holds are given back.               *)
UnrefNodes ==
  tpRefs' = [n \in TpNodes |-> IF n[1] = tpData /\ n[3] = Nobody /\ n[2] \in tpCache
                               THEN tpRefs[n] - 1 ELSE tpRefs[n]]

(* ~tcam_property_provider_impl_data: waits for everyone inside a node of  *)
(* this list, marks the guard closed and releases the nodes.               *)
DestroyList ==
  /\ tpCloser = "destroy" /\ Guarded(tpData) = {}
  /\ tpClosed' = tpClosed \cup {tpData}
  /\ UnrefNodes
  /\ tpCache' = {} /\ tpData' = 0
  /\ tpCloser' = "device"
  /\ UNCHANGED <<tpOpen, tpOpened, tpVal, tpThread, tpPending, tpHas, tpCalls, tpOdd>>

(* The rest of close: tcamprop_interface_ and the device go.               *)
TpClose ==
  /\ tpCloser = "device" /\ tpCloser' = "idle"
  /\ tpOpen' = 0
  /\ UNCHANGED <<tpOpened, tpData, tpClosed, tpCache, tpRefs, tpVal, tpThread, tpPending,
                 tpHas, tpCalls, tpOdd>>

-----------------------------------------------------------------------------
\* a thread's call

begin(t, op, list) ==
  /\ at(t, "idle") /\ tpCalls < TpCalls
  /\ tpCalls' = tpCalls + 1
  /\ goes(t, [tpThread[t] EXCEPT !.pc = "fetch", !.op = op, !.todo = list])
  /\ UNCHANGED <<cameraVars, tpRefs, tpVal, tpOdd>>

(* get_boolean ... set_command of the provider, and the same functions for *)
(* other providers: one name, as the type it is believed to have.          *)
TpCallByName(t) ==
  \E n \in TpNames, y \in {"boolean", "integer"} :
    begin(t, "call", <<[name |-> n, gtype |-> y, n |-> 1]>>)

(* get_property_interface of a consumer: the node is kept.                 *)
TpHold(t) ==
  /\ tpThread[t].held = NoNode
  /\ \E n \in TpNames : begin(t, "hold", <<[name |-> n, gtype |-> "", n |-> 1]>>)

(* A consumer uses the node it holds.                                      *)
TpUseHeld(t) ==
  /\ at(t, "idle") /\ tpThread[t].held # NoNode /\ tpCalls < TpCalls
  /\ tpCalls' = tpCalls + 1
  /\ goes(t, [tpThread[t] EXCEPT !.pc = "got", !.op = "held", !.node = tpThread[t].held,
               !.todo = <<[name |-> tpThread[t].held[2], gtype |-> "", n |-> 1]>>])
  /\ UNCHANGED <<cameraVars, tpRefs, tpVal, tpOdd>>

(* The consumer is done with its node.                                     *)
TpDropHeld(t) ==
  /\ at(t, "idle") /\ tpThread[t].held # NoNode
  /\ tpRefs' = [tpRefs EXCEPT ![tpThread[t].held] = @ - 1]
  /\ goes(t, [tpThread[t] EXCEPT !.held = NoNode])
  /\ UNCHANGED <<cameraVars, tpVal, tpCalls, tpOdd>>

(* set_tcam_properties: kept until a camera is opened, or applied.         *)
set_tcam_properties(t) ==
  \E list \in TpLists :
    /\ at(t, "idle") /\ ~Applying /\ tpCalls < TpCalls
    /\ tpCalls' = tpCalls + 1
    /\ IF tpOpen = 0
       THEN tpPending' = list /\ UNCHANGED tpThread
       ELSE applies(t, list) /\ UNCHANGED tpPending
    /\ UNCHANGED <<tpOpen, tpOpened, tpData, tpClosed, tpCache, tpCloser, tpRefs, tpHas, tpVal, tpOdd>>

(* get_tcam_property_names: the properties in the order the camera has.    *)
get_tcam_property_names ==
  CHOOSE names \in [1..Cardinality(tpHas) -> tpHas] : tpHas = {names[i] : i \in DOMAIN names}

(* get_tcam_properties: every property there is, one after the other.      *)
serialize_properties(t) ==
  /\ tpOpen # 0 /\ tpData # 0 /\ ~ListLocked
  /\ LET names == get_tcam_property_names
     IN begin(t, "serialize",
              [i \in DOMAIN names |-> [name |-> names[i], gtype |-> TpProps[names[i]].type, n |-> 0]])

(* Mutant: what is locked the first time is given up.                      *)
NoMoreRounds(retry, won) == FALSE

(* while (at_least_one_success && !struct_list.empty())                    *)
AnotherRound(retry, won) == won /\ retry # <<>>

(* An entry is over, with the error of its setter, if any.                 *)
after(t, err) ==
  LET th == tpThread[t]
      locked == err = "TCAM_ERROR_PROPERTY_NOT_WRITEABLE"
      done == err = "none"
      todo == Tail(th.todo)
      retry == IF locked THEN Append(th.retry, entry(t)) ELSE th.retry
      won == th.won \/ done
  IN IF todo # <<>>
     THEN [th EXCEPT !.pc = "fetch", !.node = NoNode, !.todo = todo, !.retry = retry, !.won = won]
     ELSE IF th.op = "apply" /\ AnotherRound(retry, won)
     THEN [th EXCEPT !.pc = "fetch", !.node = NoNode, !.todo = retry, !.retry = <<>>, !.won = FALSE]
     ELSE [IdleThread EXCEPT !.held = th.held]

-----------------------------------------------------------------------------
\* fetch_item and find_or_create_entry

got(t, copy) ==
  goes(t, [tpThread[t] EXCEPT !.pc = "got", !.node = <<tpData, entry(t).name, copy>>])

(* No camera, device_not_opened, or no such property.                      *)
fetch_item(t) ==
  /\ at(t, "fetch") /\ ~ListLocked
  /\ tpData = 0 \/ entry(t).name \notin tpHas
  /\ goes(t, after(t, "TCAM_ERROR_PROPERTY_NOT_IMPLEMENTED"))
  /\ UNCHANGED <<cameraVars, tpRefs, tpVal, tpCalls, tpOdd>>

find_or_create_entry(t) ==
  /\ at(t, "fetch") /\ ~ListLocked
  /\ tpData # 0 /\ entry(t).name \in tpHas
  /\ IF entry(t).name \in tpCache
     THEN /\ got(t, Nobody)
          /\ tpRefs' = [tpRefs EXCEPT ![<<tpData, entry(t).name, Nobody>>] = @ + 1]
     ELSE /\ goes(t, [tpThread[t] EXCEPT !.pc = "create"])
          /\ UNCHANGED tpRefs
  /\ UNCHANGED <<cameraVars, tpVal, tpCalls, tpOdd>>

(* tcamprop_impl_create_node and emplace: two threads may both be here,    *)
(* for both locks are shared.  emplace refuses a name that is already      *)
(* there, and the reference meant for the container is lost.               *)
tcamprop_impl_create_node(t) ==
  LET n == entry(t).name
      copy == IF n \in tpCache THEN t ELSE Nobody
  IN /\ at(t, "create")
     /\ tpCache' = tpCache \cup {n}
     /\ tpRefs' = [tpRefs EXCEPT ![<<tpData, n, copy>>] = @ + 2]
     /\ tpOdd' = tpOdd \cup {<<tpData, n, c>> : c \in {copy} \ {Nobody}}
     /\ got(t, copy)
     /\ UNCHANGED <<tpOpen, tpOpened, tpData, tpClosed, tpCloser, tpVal, tpPending, tpHas, tpCalls>>

-----------------------------------------------------------------------------
\* what is done with a node

unref(t) ==
  tpRefs' = IF tpThread[t].op = "held" THEN tpRefs
            ELSE [tpRefs EXCEPT ![tpThread[t].node] = @ - 1]

WrongType(t) == tpThread[t].op = "call" /\ TpProps[entry(t).name].type # entry(t).gtype
Skipped(t) ==
  \/ tpThread[t].op = "apply" /\ TpProps[entry(t).name].access = "RO"
  \/ tpThread[t].op = "serialize" /\ (\/ TpProps[entry(t).name].access = "WO"
                                      \/ TpProps[entry(t).name].type = "command")

(* A call by name with the wrong type returns without g_object_unref.      *)
type_incompatible(t) ==
  /\ at(t, "got") /\ WrongType(t)
  /\ tpOdd' = tpOdd \cup {tpThread[t].node}
  /\ goes(t, after(t, map_error("parameter_type_incompatible")))
  /\ UNCHANGED <<cameraVars, tpRefs, tpVal, tpCalls>>

(* apply_entry passes over what is read only, without a report;            *)
(* serialize_properties over what is write only, and over commands.        *)
skip_entry(t) ==
  /\ at(t, "got") /\ Skipped(t)
  /\ unref(t)
  /\ goes(t, after(t, "failure"))
  /\ UNCHANGED <<cameraVars, tpVal, tpCalls, tpOdd>>

(* get_tcam_property: the application gets the reference.                  *)
get_tcam_property(t) ==
  /\ at(t, "got") /\ tpThread[t].op = "hold"
  /\ goes(t, [IdleThread EXCEPT !.held = tpThread[t].node])
  /\ UNCHANGED <<cameraVars, tpRefs, tpVal, tpCalls, tpOdd>>

Entering(t) == at(t, "got") /\ tpThread[t].op # "hold" /\ ~WrongType(t) /\ ~Skipped(t)

(* Mutant: the state of the guard is not looked at.                        *)
AlwaysAlive(g) == TRUE

(* guard_state_raii::owning_lock                                           *)
owning_lock(g) == g \notin tpClosed

(* make_guard: the shared lock, and the list is alive.                     *)
make_guard(t) ==
  /\ Entering(t) /\ owning_lock(tpThread[t].node[1])
  /\ goes(t, [tpThread[t] EXCEPT !.pc = "use"])
  /\ UNCHANGED <<cameraVars, tpRefs, tpVal, tpCalls, tpOdd>>

(* The list is closed; apply_entry asks get_is_available first, and takes  *)
(* a camera that is gone for a property that is locked.                    *)
fill_GError_device_lost(t) ==
  /\ Entering(t) /\ ~owning_lock(tpThread[t].node[1])
  /\ unref(t)
  /\ goes(t, after(t, IF tpThread[t].op = "apply" THEN "TCAM_ERROR_PROPERTY_NOT_WRITEABLE"
                      ELSE map_error("device_closed")))
  /\ UNCHANGED <<cameraVars, tpVal, tpCalls, tpOdd>>

(* set_value of the node, through the wrapper, and the reference is given  *)
(* back: apply_entry, set_boolean ... set_command, and the consumers.      *)
set_value(t) ==
  LET e == entry(t)
      res == IF tpThread[t].op = "apply" THEN apply_value(e) ELSE set_property_value(e.name, e.n)
  IN /\ at(t, "use") /\ tpThread[t].op # "serialize"
     /\ TpProps[e.name].access # "RO"
     /\ tpVal' = IF res.err = "none" THEN [tpVal EXCEPT ![e.name] = res.n] ELSE tpVal
     /\ unref(t)
     /\ tpThread' = [u \in TpThreads |->
                       IF u = t THEN after(t, fill_GError(res.err))
                       ELSE [tpThread[u] EXCEPT !.calm = @ /\ tpVal' = tpVal]]
     /\ UNCHANGED <<cameraVars, tpCalls, tpOdd>>

(* get_value, get_range, get_default, is_locked ...: nothing changes.      *)
get_value(t) ==
  /\ at(t, "use") /\ tpThread[t].op # "apply"
  /\ unref(t)
  /\ goes(t, after(t, "none"))
  /\ UNCHANGED <<cameraVars, tpVal, tpCalls, tpOdd>>

TpBegins(t) == \/ TpCallByName(t) \/ TpHold(t) \/ TpUseHeld(t)
               \/ set_tcam_properties(t) \/ serialize_properties(t)
TpGoesOn(t) ==
  \/ fetch_item(t) \/ find_or_create_entry(t) \/ tcamprop_impl_create_node(t)
  \/ type_incompatible(t) \/ skip_entry(t) \/ get_tcam_property(t)
  \/ make_guard(t) \/ fill_GError_device_lost(t) \/ set_value(t) \/ get_value(t)

TpNext ==
  \/ clear_list \/ DestroyList \/ TpClose
  \/ \E t \in TpThreads : TpOpenCamera(t) \/ TpBegins(t) \/ TpDropHeld(t) \/ TpGoesOn(t)

TpSpec == TpInit /\ [][TpNext]_tpVars

-----------------------------------------------------------------------------
\* properties

Has(n) == {t \in TpThreads : n \in {tpThread[t].node, tpThread[t].held}}

(* A property node is used only while the camera it belongs to is open,    *)
(* though applications keep nodes across close and other threads close the *)
(* camera: the guard is taken, and its state looked at, before the pointer *)
(* into the camera is followed.  A node that somebody has is never freed,  *)
(* and one that nobody has is, once its list is closed, unless it was      *)
(* asked for as a wrong type or was created twice.                         *)
NodesAreSafe ==
  /\ \A t \in TpThreads : at(t, "use") => tpThread[t].node[1] = tpOpen
  /\ \A n \in TpNodes :
       /\ Has(n) # {} => tpRefs[n] > 0
       /\ (Has(n) = {} /\ n[1] # tpData /\ n \notin tpOdd) => tpRefs[n] = 0

(* The value a setting asks for, by the type of the property; -1 for none. *)
Meant(e) ==
  LET y == TpProps[e.name].type
      numbers == CASE y = "boolean" -> {"bool", "int"} [] y = "integer" -> {"bool", "int", "double"}
                   [] y = "float" -> {"int", "double"}
                   [] OTHER -> {"bool", "int", "double", "string"}
  IN IF e.gtype \notin numbers \/ TpProps[e.name].access = "RO" THEN -1
     ELSE IF y \in {"integer", "float", "enumeration"} /\ e.n \notin 0..TpProps[e.name].max THEN -1
     ELSE IF y = "boolean" /\ e.n # 0 THEN 1 ELSE e.n

(* Settings take effect in whatever order a structure lists them: when     *)
(* apply_properties returns and no other thread set anything, each setting *)
(* it was given is in force, or its property does not exist, is read only, *)
(* cannot have that value, or is locked by what the camera is now set to.  *)
AppliesWhatCanBe ==
  [][\A t \in TpThreads :
       (tpThread[t].op = "apply" /\ tpThread[t].calm /\ tpThread'[t].pc = "idle") =>
         \A i \in DOMAIN tpThread[t].asked :
           LET e == tpThread[t].asked[i]
           IN \/ e.name \notin tpHas \/ Meant(e) = -1
              \/ TpProps[e.name].type = "command"
              \/ tpVal'[e.name] = Meant(e)
              \/ is_locked(tpVal', e.name)]_tpVars
=============================================================================
