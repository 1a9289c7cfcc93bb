------------------------------- MODULE NetInput -------------------------------
(* The input of the ripper (sacd_input.c): a file or device, or a server that   *)
(* reads the disc in a PlayStation and is asked over one TCP connection.        *)
(*                                                                              *)
(* A request and its answer are messages of fields (nanopb), ended by a zero.   *)
(* Nothing numbers them: the next message in the stream is taken for the        *)
(* answer, and a message that is given up halfway leaves its rest there.  The   *)
(* stream is a sequence of fields; the server is not part of the repository.    *)
EXTENDS Integers, Sequences

CONSTANTS Total,      \* sectors of the disc
          MaxData,    \* sectors that an answer may hold (512)
          MaxCalls, MaxFaults   \* bounds: calls, and faulty answers and receptions

\* The bounds are numbers; the size of the disc and of an answer may be any.
Numbers == Total \in Nat \ {0} /\ MaxData \in Nat /\ MaxCalls \in Nat /\ MaxFaults \in Nat

VARIABLES
  net,                   \* sacd_input_setup: the target is a server
  pc, call,              \* the step, and the call of sacd_reader.c
  dev, fd,               \* struct sacd_input_s, and what its descriptor is
  conn, input, requests, \* the connection, the fields that arrived, what is not answered
  garbled,               \* the server has got a part of a request
  response, seen,        \* what pb_decode fills, fields_seen
  buffer, returned,      \* the caller's buffer (sectors) and the result
  outOfStep,             \* history: a message was given up halfway
  calls, faults

device == <<net, dev, fd>>
stream == <<conn, input, requests, garbled>>
decoder == <<response, seen>>
counts == <<calls, faults>>
vars == <<pc, call, device, stream, decoder, buffer, returned, outOfStep, counts>>

Ops == {"open", "size", "read", "close"}
\* The call that closes, of an open that failed too; also what precedes the first.
CloseCall == [op |-> "close", pos |-> 0, n |-> 0]
Garbage == [type |-> "any", result |-> 0, has_data |-> FALSE]
NoSector == -1

Init == /\ net \in BOOLEAN
        /\ pc = "closed" /\ call = CloseCall
        /\ dev = "none" /\ fd = "none"
        /\ conn = "none" /\ input = <<>> /\ requests = <<>> /\ garbled = FALSE
        /\ response = Garbage /\ seen = {}
        /\ buffer = <<>> /\ returned = 0 /\ outOfStep = FALSE
        /\ calls = 0 /\ faults = 0

Called(op, pos, n) == /\ calls < MaxCalls
                      /\ calls' = calls + 1
                      /\ call' = [op |-> op, pos |-> pos, n |-> n]
Return(n) == returned' = n /\ pc' = "idle"

-----------------------------------------------------------------------------
(* The server and the network *)

\* What the disc holds of n sectors from pos.
Sectors(pos, n) == [k \in 1 .. (IF n <= Total - pos THEN n ELSE Total - pos) |-> pos + k - 1]

Field(f, v) == [field |-> f, value |-> v]
Good(c) == LET read == Sectors(c.pos, c.n) IN
  CASE c.op = "size" -> <<Field("type", <<"size">>), Field("result", <<Total>>)>>
    [] c.op = "read" -> <<Field("type", <<"read">>), Field("result", <<Len(read)>>), Field("data", read)>>
    [] OTHER         -> <<Field("type", <<c.op>>), Field("result", <<0>>)>>

\* Answers that the client has to refuse: of another type, an error, without
\* data or a field that is required, with one that it does not know, or with
\* more data than it allows.
Bad(c) == LET good == Good(c) IN
  {<<Field("type", <<"other">>), Field("result", <<1>>)>>
     \o (IF c.op = "read" THEN <<Field("data", <<NoSector>>)>> ELSE <<>>),
   <<good[1], Field("result", <<-1>>)>>,
   SubSeq(good, 1, 2), SubSeq(good, 1, 1),
   <<Field("varint", <<>>)>> \o good, <<Field("bytes", <<>>)>> \o good,
   SubSeq(good, 1, 2) \o <<Field("data", [k \in 1 .. MaxData + 1 |-> NoSector])>>}

Answer == /\ conn = "up" /\ requests # <<>>
          /\ \/ input' = input \o Good(requests[1]) \o <<Field("end", <<>>)>> /\ UNCHANGED faults
             \/ /\ faults < MaxFaults /\ faults' = faults + 1
                /\ \E bad \in Bad(requests[1]) : input' = input \o bad \o <<Field("end", <<>>)>>
          /\ requests' = Tail(requests)
          /\ UNCHANGED <<pc, call, device, conn, garbled, decoder, buffer, returned, outOfStep, calls>>

\* The connection ends; what is on the way may be lost.
Disconnect == /\ conn = "up"
              /\ conn' = "down" /\ requests' = <<>>
              /\ \E n \in 0 .. Len(input) : input' = SubSeq(input, 1, n)
              /\ UNCHANGED <<pc, call, device, garbled, decoder, buffer, returned, outOfStep, counts>>

-----------------------------------------------------------------------------
(* Sending *)

\* sacd_net_input_open up to the request; whatever fails, sacd_input_close follows.
NetOpen ==
  /\ net /\ pc = "closed" /\ Called("open", 0, 0)
  /\ \/ dev' = "bare" /\ fd' = "zero" /\ conn' = "none" /\ pc' = "close"
     \/ dev' = "device" /\ fd' = "invalid" /\ conn' = "none" /\ pc' = "close"
     \/ dev' = "device" /\ fd' = "socket" /\ conn' = "none" /\ pc' = "close"
     \/ dev' = "device" /\ fd' = "socket" /\ conn' = "up" /\ pc' = "send"
  /\ input' = <<>> /\ requests' = <<>> /\ garbled' = FALSE /\ outOfStep' = FALSE
  /\ UNCHANGED <<net, decoder, buffer, returned, faults>>

NetCall == /\ net /\ pc = "idle"
           /\ \/ Called("size", 0, 0)
              \/ \E pos \in 0 .. Total - 1, n \in 1 .. MaxData : Called("read", pos, n)
              \/ Called("close", 0, 0)
           /\ pc' = "send"
           /\ UNCHANGED <<device, stream, decoder, buffer, returned, outOfStep, faults>>

\* sacd_input_close of an open that failed.
CloseFailed == /\ pc = "close"
               /\ call' = CloseCall /\ pc' = "send"
               /\ UNCHANGED <<device, stream, decoder, buffer, returned, outOfStep, counts>>

\* After a failure: open closes, close goes on to release all, the others
\* return 0.
Error == CASE call.op = "open"  -> pc' = "close" /\ UNCHANGED returned
           [] call.op = "close" -> pc' = "release" /\ UNCHANGED returned
           [] OTHER             -> Return(0)

\* pb_message_set_to_defaults; the variable is a new one, the defaults set has_data.
Defaults == response' = Garbage

\* pb_encode and the zero, of a read as one buffer, else piece by piece; then it is not noticed when the zero is not sent.
Send == /\ pc = "send" /\ conn # "none"
        /\ IF conn = "up" /\ ~garbled
           THEN \/ requests' = Append(requests, call) /\ UNCHANGED garbled
                \/ call.op # "read" /\ garbled' = TRUE /\ UNCHANGED requests
           ELSE UNCHANGED <<requests, garbled>>
        /\ pc' = "decode" /\ Defaults /\ seen' = {}
        /\ UNCHANGED <<call, device, conn, input, buffer, returned, outOfStep, counts>>

\* socket_send fails, or sends a part, which is not completed.
SendFails == /\ pc = "send"
             /\ Error
             /\ garbled' \in (IF conn = "up" THEN BOOLEAN ELSE {garbled})
             /\ UNCHANGED <<call, device, conn, input, requests, decoder, buffer, outOfStep, counts>>

-----------------------------------------------------------------------------
(* pb_decode of the answer *)

Next1 == input[1].field
Consume == input' = Tail(input)
Decoding(f) == pc = "decode" /\ input # <<>> /\ Next1 = f
Unread == <<conn, requests, garbled>>

TypeField == /\ Decoding("type") /\ Consume
             /\ response' = [response EXCEPT !.type = input[1].value[1]]
             /\ seen' = seen \cup {"type"}
             /\ UNCHANGED <<pc, call, device, Unread, buffer, returned, outOfStep, counts>>

ResultField == /\ Decoding("result") /\ Consume
               /\ response' = [response EXCEPT !.result = input[1].value[1]]
               /\ seen' = seen \cup {"result"}
               /\ UNCHANGED <<pc, call, device, Unread, buffer, returned, outOfStep, counts>>

\* The rest of a field that was given up.
Rest == input' = <<Field("rest", <<>>)>> \o Tail(input)

GiveUp == /\ Error /\ outOfStep' = TRUE
          /\ UNCHANGED <<call, device, Unread, seen, calls>>

\* pb_dec_bytes: has_data is set first; the data goes to the caller's buffer.
\* (The calls that do not read have no buffer; the server sends them no data.)
DataField ==
  /\ Decoding("data")
  /\ IF Len(input[1].value) > MaxData
     THEN Rest /\ GiveUp /\ UNCHANGED <<response, buffer, faults>>
     ELSE \/ /\ Consume
             /\ response' = [response EXCEPT !.has_data = TRUE]
             /\ buffer' = input[1].value
             /\ UNCHANGED <<pc, call, device, Unread, seen, returned, outOfStep, counts>>
          \/ \* recv is interrupted
             /\ faults < MaxFaults /\ faults' = faults + 1
             /\ Rest /\ GiveUp
             /\ buffer' = [k \in DOMAIN input[1].value |-> NoSector]
             /\ UNCHANGED response

\* A field with an unknown tag: a number is skipped; the loop that skips other
\* fields always reports a failure, after it has skipped them.
UnknownNumber == /\ Decoding("varint") /\ Consume
                 /\ UNCHANGED <<pc, call, device, Unread, decoder, buffer, returned, outOfStep, counts>>
UnknownBytes == /\ Decoding("bytes") /\ Consume /\ GiveUp
                /\ UNCHANGED <<response, buffer, faults>>

\* The rest of a field may look like anything: here, like nothing known, or
\* like a field of the answer.
RestOfField == /\ Decoding("rest")
               /\ \/ Consume /\ GiveUp /\ UNCHANGED <<response, buffer, faults>>
                  \/ \E f \in {"type", "result"} :
                       /\ Consume /\ seen' = seen \cup {f}
                       /\ UNCHANGED <<pc, call, device, Unread, response, buffer, returned, outOfStep, counts>>

\* The required fields.
Complete == {"type", "result"} \subseteq seen

\* Mutant: the type of the answer does not matter.
Accepted_AnyType == TRUE

Accepted == response.type = call.op

\* What the calls make of the answer.
Finish == IF ~Complete \/ call.op = "close" THEN Error
          ELSE CASE call.op = "open" -> IF Accepted /\ response.result = 0 THEN Return(1) ELSE Error
                 [] call.op = "size" -> IF Accepted THEN Return(response.result) ELSE Error
                 [] call.op = "read" -> IF Accepted /\ response.has_data
                                        THEN Return(response.result) ELSE Error

EndOfMessage == /\ Decoding("end") /\ Consume /\ Finish
                /\ UNCHANGED <<call, device, Unread, decoder, buffer, outOfStep, counts>>

\* recv returns 0, read_callback sets bytes_left to 0: between two fields it is
\* the end of the message, within one an error.
EndOfStream == /\ pc = "decode" /\ input = <<>> /\ conn = "down"
               /\ Finish \/ Error
               /\ UNCHANGED <<call, device, stream, decoder, buffer, outOfStep, counts>>

\* The end of sacd_net_input_close.
Release == /\ pc = "release"
           /\ dev' = "none" /\ fd' = "none" /\ conn' = "none"
           /\ input' = <<>> /\ requests' = <<>>
           /\ returned' = 0 /\ pc' = "closed"
           /\ UNCHANGED <<call, net, garbled, decoder, buffer, outOfStep, counts>>

-----------------------------------------------------------------------------
(* A file or a device *)

FileOpen == /\ ~net /\ pc = "closed" /\ Called("open", 0, 0)
            /\ \/ dev' = "device" /\ fd' = "file" /\ Return(1)
               \/ UNCHANGED <<dev, fd, pc>> /\ returned' = 0
            /\ UNCHANGED <<net, stream, decoder, buffer, outOfStep, faults>>

\* read may return fewer bytes; whole sectors count.
FileRead == /\ ~net /\ pc = "idle"
            /\ \E pos \in 0 .. Total, n \in 1 .. MaxData :
                 /\ Called("read", pos, n)
                 /\ \E m \in 0 .. Len(Sectors(pos, n)) :
                      Return(m) /\ buffer' = SubSeq(Sectors(pos, n), 1, m)
            /\ UNCHANGED <<device, stream, decoder, outOfStep, faults>>

FileSize == /\ ~net /\ pc = "idle" /\ Called("size", 0, 0)
            /\ Return(0) \/ Return(Total)    \* fstat may fail
            /\ UNCHANGED <<device, stream, decoder, buffer, outOfStep, faults>>

FileClose == /\ ~net /\ pc = "idle" /\ Called("close", 0, 0)
             /\ dev' = "none" /\ fd' = "none" /\ returned' = 0 /\ pc' = "closed"
             /\ UNCHANGED <<net, stream, decoder, buffer, outOfStep, faults>>

Stop == pc \in {"closed", "idle"} /\ calls = MaxCalls /\ UNCHANGED vars

Next == \/ Answer \/ Disconnect
        \/ NetOpen \/ NetCall \/ CloseFailed \/ Send \/ SendFails
        \/ TypeField \/ ResultField \/ DataField \/ UnknownNumber \/ UnknownBytes
        \/ RestOfField \/ EndOfMessage \/ EndOfStream \/ Release
        \/ FileOpen \/ FileRead \/ FileSize \/ FileClose
        \/ Stop

Spec == Init /\ [][Next]_vars

-----------------------------------------------------------------------------
(* Properties *)

Flags == garbled \in BOOLEAN /\ outOfStep \in BOOLEAN
TypeOK == /\ pc \in {"closed", "idle", "send", "decode", "close", "release"}
          /\ call.op \in Ops /\ dev \in {"none", "bare", "device"}
          /\ fd \in {"none", "zero", "invalid", "socket", "file"}
          /\ conn \in {"none", "up", "down"} /\ Flags
          /\ returned \in -1 .. Total
          /\ calls \in 0 .. MaxCalls /\ faults \in 0 .. MaxFaults

\* As long as no message was given up halfway, the caller gets from a read the
\* sectors it asked for, whatever was asked before, and whichever answers had
\* the wrong type, no data or an error, or were cut off by the end of the
\* connection; the size is that of the disc.
AnswersMatchRequests ==
  pc = "idle" /\ ~outOfStep =>
    /\ call.op = "read" => /\ returned <= call.n
                           /\ \A k \in 1 .. returned : k <= Len(buffer) /\ buffer[k] = call.pos + k - 1
    /\ call.op = "size" => returned \in {-1, 0, Total}

\* However an input was opened and closed, and whatever failed, the structure,
\* its buffer and its connection are gone afterwards.
ClosedIsReleased == pc = "closed" => dev = "none" /\ fd = "none" /\ conn = "none"

-----------------------------------------------------------------------------
(* The inductive invariant *)

CallInv == /\ pc \in {"closed", "idle", "send", "decode", "close", "release"}
           /\ call \in [op : Ops, pos : 0 .. Total, n : Nat]

\* Who has a connection, and when nothing can be asked any more.
ConnectionInv == /\ ~net => conn = "none"
                 /\ conn # "up" => requests = <<>>

\* A field of an answer of another type, and one of an answer to c.
Known(x) == x.field \in {"type", "result", "data", "varint", "bytes", "end"}
Foreign(x) == Known(x) /\ (x.field = "type" => x.value[1] = "other")
Results(c) == {-1, IF c.op = "size" THEN Total ELSE Len(Sectors(c.pos, c.n))}
Suits(x, c) == /\ Known(x)
               /\ x.field = "type" => x.value[1] = c.op
               /\ x.field = "result" /\ c.op \in {"size", "read"} => x.value[1] \in Results(c)
               /\ x.field = "data" => x.value = Sectors(c.pos, c.n) \/ Len(x.value) > MaxData

\* In step, the stream holds what is left of one answer at most.
IsSeq(s) == Len(s) \in Nat /\ s = [k \in 1 .. Len(s) |-> s[k]]
StreamInv == /\ IsSeq(input)
             /\ \A k \in DOMAIN input : input[k].field = "end" => k = Len(input)
             /\ pc # "decode" => input = <<>> /\ requests = <<>>
             /\ requests # <<>> => /\ requests = <<call>> /\ input = <<>>
                                  /\ response = Garbage /\ seen = {}

\* What was decoded of it.
DecodeInv ==
  /\ DOMAIN response = {"type", "result", "has_data"}
  /\ \/ /\ \A k \in DOMAIN input : Foreign(input[k])
        /\ response.type \in {"any", "other"}
     \/ /\ \A k \in DOMAIN input : Suits(input[k], call)
        /\ response.has_data => buffer = Sectors(call.pos, call.n)
        /\ "result" \in seen /\ call.op \in {"size", "read"} => response.result \in Results(call)

\* In step or not: the requests on the way are calls, and a result is a number
\* that an answer may hold.
Plain(x) == x.field = "result" => x.value[1] \in -1 .. Total
ResultInv == /\ requests \in Seq([op : Ops, pos : 0 .. Total, n : Nat])
             /\ IsSeq(input) /\ \A k \in DOMAIN input : Plain(input[k])
             /\ DOMAIN response = {"type", "result", "has_data"}
             /\ response.result \in -1 .. Total

NetInv == /\ CallInv /\ ConnectionInv /\ ClosedIsReleased /\ AnswersMatchRequests
          /\ ~outOfStep => StreamInv /\ (pc = "decode" => DecodeInv)
=============================================================================
