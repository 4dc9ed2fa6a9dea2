------------------------------ MODULE SysReader ------------------------------
(***************************************************************************)
(* native/jni: the program sys_reader composed with the log device.  Each  *)
(* Reader of module Interface runs main(): it opens the device and reads a *)
(* header, whose content_size says how much to read next, then the         *)
(* content, and passes both on, until something does not fit or it is      *)
(* killed.  Loggers write each record (log_item_to_storage) in one call.   *)
(***************************************************************************)
EXTENDS Interface, Sequences

CONSTANTS
  HeaderSize,     (* sizeof(log_header)                                     *)
  KillPoints      (* the points of main() at which it may end from outside: *)
                  (* a signal, or no memory for the content                 *)

Points == {"stopped", "header", "header_read", "content", "content_read", "leave",
           "killed"}

ASSUME ReaderAssumption ==
  /\ HeaderSize \in Nat \ {0}
  /\ \A size \in RecordSizes : size > HeaderSize
  /\ KillPoints \subseteq {"header", "content"}

VARIABLES
  point,          (* where main() of each reader is                         *)
  header,         (* what the last header read begins at                    *)
  need,           (* its content_size                                       *)
  records,        (* history: first byte and size of each accepted record   *)
  logged          (* history: what was passed on: where the header and the  *)
                  (* content begin, and the size of the content             *)

program == <<point, header, need>>
rvars   == <<vars, program, records, logged>>

RInit ==
  /\ Init
  /\ point = [t \in Readers |-> "stopped"]
  /\ header = [t \in Readers |-> NoByte]
  /\ need = [t \in Readers |-> 0]
  /\ records = <<>>
  /\ logged = <<>>

At(t, from) == point[t] = from /\ pc[t] = "open"

(* A step of the driver inside a call. *)
Call(t) ==
  /\ \/ WriteBegin(t) \/ WriteDown(t) \/ WriteSignalled(t) \/ WriteCheck(t) \/ WriteUp(t)
  /\ UNCHANGED <<program, records, logged>>

(* log_item_to_storage puts the size of the content into the header. *)
Store(t) ==
  /\ WriteCopy(t)
  /\ records' = Append(records, [first |-> accepted, size |-> want[t]])
  /\ UNCHANGED <<program, logged>>

ReaderCall(t) ==
  /\ \/ OpenDown(t) \/ OpenSignalled(t) \/ OpenCheck(t) \/ OpenTake(t) \/ OpenUp(t)
     \/ ReadDown(t) \/ ReadSignalled(t) \/ ReadPlan(t) \/ ReadFirst(t) \/ ReadRest(t)
     \/ ReadUp(t)
     \/ CloseDown(t) \/ CloseSignalled(t) \/ CloseCheck(t) \/ CloseClear(t) \/ CloseUp(t)
  /\ UNCHANGED <<program, records, logged>>

(* main() and Initize(). *)
Start(t) ==
  /\ point[t] \in {"stopped", "killed"} /\ OpenBegin(t)
  /\ point' = [point EXCEPT ![t] = "header"]
  /\ UNCHANGED <<header, need, records, logged>>

AskHeader(t) ==
  /\ At(t, "header") /\ ReadBegin(t, HeaderSize)
  /\ point' = [point EXCEPT ![t] = "header_read"]
  /\ UNCHANGED <<header, need, records, logged>>

(* The size of the whole record, as the comment at log_def.h:84 has it. *)
BugContentSizes(first) ==
  LET starting == {i \in 1 .. Len(records) : records[i].first = first}
  IN  IF starting = {} THEN 0 .. BufSize ELSE {records[i].size : i \in starting}

(* The content_size in a header that begins at byte first.  Bytes that do  *)
(* not begin a record may mean any size; up to BufSize tells the cases     *)
(* apart.                                                                  *)
ContentSizes(first) ==
  LET starting == {i \in 1 .. Len(records) : records[i].first = first}
  IN  IF starting = {} THEN 0 .. BufSize
      ELSE {records[i].size - HeaderSize : i \in starting}

(* An empty read ends the program as a short one does. *)
BugTakeHeader(t) ==
  /\ At(t, "header_read")
  /\ IF copyed[t] = HeaderSize
     THEN /\ point' = [point EXCEPT ![t] = "content"]
          /\ header' = [header EXCEPT ![t] = user_buf[t][0]]
          /\ \E size \in ContentSizes(user_buf[t][0]) : need' = [need EXCEPT ![t] = size]
     ELSE /\ point' = [point EXCEPT ![t] = "leave"]
          /\ UNCHANGED <<header, need>>
  /\ UNCHANGED <<vars, records, logged>>

(* ReadHeader, after read(): a whole header; nothing there, so sleep and   *)
(* ask again; or part of one, and main() breaks out of its loop.           *)
TakeHeader(t) ==
  /\ At(t, "header_read")
  /\ IF copyed[t] = HeaderSize
     THEN /\ point' = [point EXCEPT ![t] = "content"]
          /\ header' = [header EXCEPT ![t] = user_buf[t][0]]
          /\ \E size \in ContentSizes(user_buf[t][0]) : need' = [need EXCEPT ![t] = size]
     ELSE /\ point' = [point EXCEPT ![t] = IF copyed[t] = 0 THEN "header" ELSE "leave"]
          /\ UNCHANGED <<header, need>>
  /\ UNCHANGED <<vars, records, logged>>

(* ReadContent, up to read().  A header without content ends the program. *)
AskContent(t) ==
  /\ At(t, "content")
  /\ IF need[t] > 0
     THEN /\ ReadBegin(t, need[t])
          /\ point' = [point EXCEPT ![t] = "content_read"]
     ELSE /\ point' = [point EXCEPT ![t] = "leave"]
          /\ UNCHANGED vars
  /\ UNCHANGED <<header, need, records, logged>>

(* ReadContent, after read(), and the rest of the loop of main(). *)
TakeContent(t) ==
  /\ At(t, "content_read")
  /\ IF copyed[t] = need[t]
     THEN /\ point' = [point EXCEPT ![t] = "header"]
          /\ logged' = Append(logged, [header |-> header[t], content |-> user_buf[t][0],
                                       size |-> need[t]])
     ELSE /\ point' = [point EXCEPT ![t] = "leave"]
          /\ UNCHANGED logged
  /\ UNCHANGED <<vars, header, need, records>>

Kill(t) ==
  /\ point[t] \in KillPoints /\ pc[t] = "open"
  /\ point' = [point EXCEPT ![t] = "killed"]
  /\ UNCHANGED <<vars, header, need, records, logged>>

(* Cleanup() closes the device, or the kernel does when the program ends. *)
Leave(t) ==
  /\ point[t] \in {"leave", "killed"} /\ CloseBegin(t)
  /\ point' = [point EXCEPT ![t] = IF @ = "leave" THEN "stopped" ELSE @]
  /\ UNCHANGED <<header, need, records, logged>>

Main(t) ==
  \/ AskHeader(t) \/ TakeHeader(t) \/ AskContent(t) \/ TakeContent(t) \/ Leave(t)

RNext ==
  \/ \E t \in Writers : Call(t) \/ Store(t)
  \/ \E t \in Readers : ReaderCall(t) \/ Start(t) \/ Main(t) \/ Kill(t)

RSpec == RInit /\ [][RNext]_rvars

(* As in module Interface; the program also keeps running, between its     *)
(* calls and through its sleeps, once it was started.                      *)
RFairness ==
  /\ \A t \in Writers :
       /\ SF_rvars(WriteDown(t) /\ Call(t))
       /\ WF_rvars((WriteCheck(t) \/ WriteUp(t)) /\ Call(t))
       /\ WF_rvars(Store(t))
  /\ \A t \in Readers :
       /\ SF_rvars((OpenDown(t) \/ ReadDown(t) \/ CloseDown(t)) /\ ReaderCall(t))
       /\ WF_rvars(ReaderCall(t))
       /\ WF_rvars(Main(t))

RFairSpec == RSpec /\ RFairness

-----------------------------------------------------------------------------
(* Properties                                                              *)

(* What sys_reader passes on are the records in the order they were        *)
(* accepted, none missing, none twice, each with the content that belongs  *)
(* to its header: the program never loses its place in the stream, also    *)
(* from one session to the next (interface.cpp:324 "once go to here,       *)
(* everything is fine").                                                   *)
LogsRecords ==
  /\ Len(logged) =< Len(records)
  /\ \A i \in 1 .. Len(logged) :
       logged[i] = [header |-> records[i].first,
                    content |-> records[i].first + HeaderSize,
                    size |-> records[i].size - HeaderSize]

(* A record that was accepted is passed on in the end, unless somebody     *)
(* ends the program: it never ends by itself, never waits for ever and     *)
(* never misses a record (the loop at main.cpp:40-92).                     *)
EveryRecordLogged ==
  \A n \in 1 .. MaxAccepted \div (HeaderSize + 1) :
    Len(records) >= n ~> Len(logged) >= n \/ \E t \in Readers : point[t] = "killed"
=============================================================================
