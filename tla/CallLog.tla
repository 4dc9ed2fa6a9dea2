------------------------------- MODULE CallLog -------------------------------
(***************************************************************************)
(* driver/log.c for one process: the log item in its slot of               *)
(* thread_log_cache, from the begin of a hooked call, through its          *)
(* parameters, to the record that goes to the device.  A slot belongs to   *)
(* one pid, and a process is in one call at a time, so what another        *)
(* process does is not seen here.                                          *)
(*                                                                         *)
(* A string is its length without the terminating zero; memory may run out *)
(* at every kmalloc.  Definitions named Bug... are mistakes the properties *)
(* must catch.                                                             *)
(***************************************************************************)
EXTENDS Integers, Sequences, FiniteSets

CONSTANTS
  Null,
  Apis,             (* the hooked calls considered                          *)
  PathLengths,      (* lengths a path may have                              *)
  ParamLengths,     (* lengths a formatted parameter may have               *)
  HeaderSize,       (* sizeof(log_header)                                   *)
  ItemSize,         (* sizeof(log_item)                                     *)
  RECORD_MAX_SIZE,
  MaxLost           (* bound on the paths lost                              *)

(* The parameters each fake function declares, and the source of its path. *)
ParamCount ==
  [open |-> 3, creat |-> 2, read |-> 3, write |-> 3, ioctl |-> 3, close |-> 1,
   execve |-> 4, exit |-> 1, fork |-> 1, vfork |-> 1, clone |-> 6]
Pathless == {"exit"}

(* The arrays of parameters there are, and the log items: a NULL pointer is *)
(* neither. *)
Arrays == UNION {[1 .. ParamCount[api] -> ParamLengths \cup {Null}] : api \in Apis}
Items ==
  [api : Apis, path : PathLengths \cup {Null}, count : Nat, current : Nat,
   strings : Arrays \cup {Null}]

ASSUME CallLogAssumption ==
  /\ Apis \subseteq DOMAIN ParamCount
  /\ PathLengths \subseteq Nat
  /\ ParamLengths \subseteq Nat /\ \A len \in ParamLengths : len >= 2   \* "name: value"
  /\ Null \notin Nat /\ Null \notin Arrays /\ Null \notin Items
  /\ HeaderSize \in Nat /\ ItemSize \in Nat /\ HeaderSize <= ItemSize
  /\ RECORD_MAX_SIZE \in Nat
  /\ MaxLost \in Nat

VARIABLES
  item,             (* the log item of the slot, Null when not allocated    *)
  pc,               (* where the call is                                    *)
  added,            (* add_..._param calls made in it                       *)
  ours,             (* is_our_process(): the caller is the log program      *)
  live,             (* strings allocated and not freed                      *)
  lost,             (* history: paths copied for calls of the log program   *)
  leaked,           (* history: paths copied for calls that got no item     *)
  details           (* the buffer of end_log_system_call                    *)

vars == <<item, pc, added, ours, live, lost, leaked, details>>

NoDetails == [size |-> 0, left |-> 0, i |-> 0, written |-> 0, text |-> <<>>]

Init ==
  /\ item = Null
  /\ pc = "user"
  /\ added = 0
  /\ ours \in BOOLEAN
  /\ live = 0
  /\ lost = 0
  /\ leaked = 0
  /\ details = NoDetails

(* What the item leads to: its path, and the parameters that param_count   *)
(* covers. *)
Held ==
  IF item = Null THEN 0
  ELSE (IF item.path = Null THEN 0 ELSE 1) +
       (IF item.strings = Null THEN 0
        ELSE Cardinality({i \in 1 .. item.count : item.strings[i] # Null}))

PathsOf(api) == IF api \in Pathless THEN {Null} ELSE PathLengths \cup {Null}
Copied(path) == IF path = Null THEN 0 ELSE 1

-----------------------------------------------------------------------------
(* begin_log_system_call_...: the path is copied first, then               *)
(* begin_log_system_call_internal looks at the caller.                     *)

(* The caller is the log program: nothing is logged, and nobody frees the  *)
(* copy. *)
BeginRefused(api, path) ==
  /\ pc = "user" /\ ours
  /\ lost + leaked + Copied(path) <= MaxLost
  /\ live' = live + Copied(path)
  /\ lost' = lost + Copied(path)
  /\ UNCHANGED <<item, pc, added, ours, leaked, details>>

(* No memory for the item: nothing is logged, and the copy has no place    *)
(* from which it could be freed. *)
BeginWithoutItem(path) ==
  /\ pc = "user" /\ ~ours
  /\ item = Null
  /\ lost + leaked + Copied(path) <= MaxLost
  /\ live' = live + Copied(path)
  /\ leaked' = leaked + Copied(path)
  /\ UNCHANGED <<item, pc, added, ours, lost, details>>

(* One parameter not declared. *)
BugFresh(api, path) ==
  [api |-> api, path |-> path, count |-> ParamCount[api] - 1, current |-> 0,
   strings |-> [i \in 1 .. ParamCount[api] - 1 |-> Null]]

(* The item in use anew: get_current_cache(true) has freed what the last   *)
(* call left in it. *)
Fresh(api, path) ==
  [api |-> api, path |-> path, count |-> ParamCount[api], current |-> 0,
   strings |-> [i \in 1 .. ParamCount[api] |-> Null]]

(* No memory for the array of the parameters: the path stays in the item. *)
BeginWithoutArray(api, path) ==
  /\ pc = "user" /\ ~ours
  /\ item' = [Fresh(api, path) EXCEPT !.strings = Null]
  /\ live' = (live - Held) + Copied(path)
  /\ UNCHANGED <<pc, added, ours, lost, leaked, details>>

(* The path of the last call is forgotten, not freed. *)
BugBegin(api, path) ==
  /\ pc = "user" /\ ~ours
  /\ item' = Fresh(api, path)
  /\ live' = (live - Held) + Copied(path)
           + (IF item = Null THEN 0 ELSE Copied(item.path))
  /\ pc' = "params"
  /\ added' = 0
  /\ UNCHANGED <<ours, lost, leaked, details>>

Begin(api, path) ==
  /\ pc = "user" /\ ~ours
  /\ item' = Fresh(api, path)
  /\ live' = (live - Held) + Copied(path)
  /\ pc' = "params"
  /\ added' = 0
  /\ UNCHANGED <<ours, lost, leaked, details>>

-----------------------------------------------------------------------------
(* add_void_param, add_int_param, add_unsigned_int_param, add_string_param *)

AddParam(len) ==
  /\ pc = "params" /\ added < ParamCount[item.api]
  /\ item' = [item EXCEPT !.strings[item.current + 1] = len, !.current = @ + 1]
  /\ live' = live + 1
  /\ added' = added + 1
  /\ UNCHANGED <<pc, ours, lost, leaked, details>>

(* The next parameter takes the place of this one. *)
AddWithoutMemory ==
  /\ pc = "params" /\ added < ParamCount[item.api]
  /\ added' = added + 1
  /\ UNCHANGED <<item, pc, ours, live, lost, leaked, details>>

-----------------------------------------------------------------------------
(* end_log_system_call, after the original call or, for execve and exit,   *)
(* before it.                                                              *)

PathSize == IF item.path = Null THEN 1 ELSE item.path
DetailSize == RECORD_MAX_SIZE - ItemSize - PathSize - 1

End ==
  /\ pc = "params" /\ added = ParamCount[item.api]
  /\ DetailSize > 0
  /\ details' = [size |-> DetailSize, left |-> DetailSize, i |-> 1, written |-> 0,
                 text |-> <<>>]
  /\ pc' = "details"
  /\ UNCHANGED <<item, added, ours, live, lost, leaked>>

(* The path takes all the space, or there is no memory for the buffer. *)
EndWithoutDetails ==
  /\ pc = "params" /\ added = ParamCount[item.api]
  /\ details' = NoDetails
  /\ pc' = "store"
  /\ UNCHANGED <<item, added, ours, live, lost, leaked>>

(* strlen of what is appended for the parameter i: "<NULL>" when missing. *)
Length(i) == IF item.strings[i] = Null THEN 6 ELSE item.strings[i]

(* A terminating zero counted with every parameter. *)
BugLeft == details.left - Length(details.i) - 1
Left == details.left - Length(details.i)
Another == details.i # item.count /\ Left > 2

(* The terminating zero not thought of. *)
BugAppendParam ==
  /\ pc = "details" /\ details.i <= item.count
  /\ Left >= 0
  /\ details' =
       [details EXCEPT
          !.left = IF Another THEN Left - 2 ELSE Left,
          !.written = @ + Length(details.i) + (IF Another THEN 2 ELSE 0),
          !.text = IF Another THEN @ \o <<details.i, 0>> ELSE @ \o <<details.i>>,
          !.i = @ + 1]
  /\ UNCHANGED <<item, pc, added, ours, live, lost, leaked>>

(* One round of the loop: the parameter and, if it is not the last one and *)
(* there is room, a separator, here 0. *)
AppendParam ==
  /\ pc = "details" /\ details.i <= item.count
  /\ Left > 0
  /\ details' =
       [details EXCEPT
          !.left = IF Another THEN Left - 2 ELSE Left,
          !.written = @ + Length(details.i) + (IF Another THEN 2 ELSE 0),
          !.text = IF Another THEN @ \o <<details.i, 0>> ELSE @ \o <<details.i>>,
          !.i = @ + 1]
  /\ UNCHANGED <<item, pc, added, ours, live, lost, leaked>>

(* The loop ends, with the last parameter or for want of room. *)
EndLoop ==
  /\ pc = "details"
  /\ details.i <= item.count => Left <= 0
  /\ pc' = "store"
  /\ UNCHANGED <<item, added, ours, live, lost, leaked, details>>

(* log_item_to_storage: header, path and details go to the device, when it *)
(* has an owner and there is memory for them. *)
FullSize ==
  HeaderSize + (IF item.path = Null THEN 1 ELSE item.path + 1) + (details.written + 1)

Store ==
  /\ pc = "store"
  /\ pc' = "user"
  /\ details' = NoDetails
  /\ UNCHANGED <<item, added, ours, live, lost, leaked>>

-----------------------------------------------------------------------------
(* The process becomes the owner of the device, or no longer is.           *)
Own ==
  /\ pc = "user"
  /\ ours' = ~ours
  /\ UNCHANGED <<item, pc, added, live, lost, leaked, details>>

(* log_cleanup, and log_init when the module is loaded again. *)
Cleanup ==
  /\ pc = "user" /\ item # Null
  /\ item' = Null
  /\ live' = live - Held
  /\ UNCHANGED <<pc, added, ours, lost, leaked, details>>

Next ==
  \/ \E api \in Apis : \E path \in PathsOf(api) :
       \/ BeginRefused(api, path) \/ BeginWithoutItem(path)
       \/ BeginWithoutArray(api, path) \/ Begin(api, path)
  \/ \E len \in ParamLengths : AddParam(len)
  \/ AddWithoutMemory
  \/ End \/ EndWithoutDetails \/ AppendParam \/ EndLoop \/ Store
  \/ Own \/ Cleanup

Spec == Init /\ [][Next]_vars

-----------------------------------------------------------------------------
(* Properties.                                                             *)

Shown == Cardinality({j \in DOMAIN details.text : details.text[j] # 0})

(* Every variable has its type.  The parameters added never run over the   *)
(* array that was allocated for the call, and there is one when they are   *)
(* added (log.c:336-347, 425).                                             *)
TypeOK ==
  /\ item = Null \/
       /\ item \in Items
       /\ item.current <= item.count
       /\ item.strings = Null \/ DOMAIN item.strings = 1 .. item.count
  /\ pc \in {"user", "params", "details", "store"}
  /\ pc # "user" => item # Null /\ item.strings # Null /\ item.current <= added
  /\ added \in Nat
  /\ ours \in BOOLEAN
  /\ {live, lost, leaked} \subseteq Nat
  /\ details.left \in Int /\ details.text \in Seq(Nat)
  /\ {details.size, details.i, details.written} \subseteq Nat

(* What a call leaves in the item is freed by the next one or by           *)
(* log_cleanup, also when memory ran out in between: the slot leads to     *)
(* every string that is allocated, but for paths that were copied for a    *)
(* call that was not logged.  There are two such calls, one of the log     *)
(* program and one that finds no memory for the item of its slot; the      *)
(* copies of both are lost (log.c:75-91, 229-250, 309-313, 355-360).       *)
StringsAccounted == live = Held + lost + leaked

(* What is appended fits the buffer with its terminating zero, and the     *)
(* record is no longer than RECORD_MAX_SIZE, unless header and path are    *)
(* alone: a record is then stored without details (log.c:558-568,          *)
(* 583-617).                                                               *)
DetailsFit ==
  pc \in {"details", "store"} =>
    /\ details.size > 0 => details.written < details.size
    /\ FullSize <= RECORD_MAX_SIZE \/ HeaderSize + PathSize + 2 > RECORD_MAX_SIZE

(* The parameters that fit, with their separators and the terminating      *)
(* zero: the first n do. *)
Fits(n) ==
  LET total[m \in 0 .. item.count] == IF m = 0 THEN 0 ELSE total[m - 1] + Length(m)
  IN  total[n] + 2 * (n - 1) < details.size

(* The details show the longest prefix of the parameters that fits, each   *)
(* separated from the next: none is skipped for a shorter one after it,    *)
(* and none that fits is dropped (log.c:595-617).                          *)
LongestPrefix ==
  pc = "store" /\ details.size > 0 =>
    /\ \A n \in 1 .. item.count : Fits(n) <=> n <= Shown
    /\ \A j \in DOMAIN details.text :
         details.text[j] = IF j % 2 = 1 THEN (j + 1) \div 2 ELSE 0
=============================================================================
