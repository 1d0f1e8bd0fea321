--------------------------- MODULE HostFilesProofs ---------------------------
(***************************************************************************)
(* What HostFiles promises of the files of other programs, for any number  *)
(* of workers, requests, addresses, jobs and records.                      *)
(***************************************************************************)
EXTENDS HostFiles, TLAPS

\* A worker serves a request of its store at one of the steps of the handler.
WorkerOK(w) ==
    IF worker[w].op = "none" THEN worker[w] = Idle
    ELSE /\ worker[w].op \in Operations[store] /\ worker[w].entry \in Entries[store]
         /\ worker[w].pc \in 1..Len(Program(worker[w].op))

TypeInv == TypeOK /\ \A w \in Workers : WorkerOK(w)

\* The stores, spelled out.
LEMMA Stores ==
    /\ DOMAIN Entries = {"mail", "cron", "zone"}
    /\ Entries["mail"] = Mailboxes /\ Entries["cron"] = Jobs /\ Entries["zone"] = Records
    /\ Files["mail"] = {"passwd", "vmailbox"} /\ Files["cron"] = {"crontab"}
    /\ Files["zone"] = {"zonefile"}
    /\ Operations["mail"] = {"create_mailbox", "delete_mailbox"}
    /\ Operations["cron"] = {"add_cron_job"} /\ Operations["zone"] = {"add_record"}
BY DEF Entries, Files, Operations

\* How many steps a handler has.
LEMMA Lengths ==
    /\ Len(Program("create_mailbox")) = 4 /\ Len(Program("delete_mailbox")) = 7
    /\ Len(Program("add_cron_job")) = 2 /\ Len(Program("add_record")) = 5
BY DEF Program, CreateMailbox, DeleteMailbox, AddCronJob, AddRecord

\* The steps of the handlers, by their kind.
LEMMA Steps ==
    ASSUME TypeInv, NEW w \in Workers, NEW kind, NEW f, At(w, kind, f)
    PROVE  \/ worker[w].op = "create_mailbox" /\ store = "mail" /\
                \/ worker[w].pc = 1 /\ kind = "run" /\ f = "doveadm"
                \/ worker[w].pc = 2 /\ kind = "append" /\ f = "passwd"
                \/ worker[w].pc = 3 /\ kind = "append" /\ f = "vmailbox"
                \/ worker[w].pc = 4 /\ kind = "run" /\ f = "postmap"
           \/ worker[w].op = "delete_mailbox" /\ store = "mail" /\
                \/ worker[w].pc = 1 /\ kind = "read" /\ f = "passwd"
                \/ worker[w].pc = 2 /\ kind = "open" /\ f = "passwd"
                \/ worker[w].pc = 3 /\ kind = "write" /\ f = "passwd"
                \/ worker[w].pc = 4 /\ kind = "read" /\ f = "vmailbox"
                \/ worker[w].pc = 5 /\ kind = "open" /\ f = "vmailbox"
                \/ worker[w].pc = 6 /\ kind = "write" /\ f = "vmailbox"
                \/ worker[w].pc = 7 /\ kind = "run" /\ f = "postmap"
           \/ worker[w].op = "add_cron_job" /\ store = "cron" /\
                \/ worker[w].pc = 1 /\ kind = "list" /\ f = "crontab"
                \/ worker[w].pc = 2 /\ kind = "install" /\ f = "crontab"
           \/ worker[w].op = "add_record" /\ store = "zone" /\
                \/ worker[w].pc = 1 /\ kind = "append" /\ f = "zonefile"
                \/ worker[w].pc = 2 /\ kind = "read" /\ f = "zonefile"
                \/ worker[w].pc = 3 /\ kind = "open" /\ f = "zonefile"
                \/ worker[w].pc = 4 /\ kind = "write" /\ f = "zonefile"
                \/ worker[w].pc = 5 /\ kind = "run" /\ f = "rndc"
<1> DEFINE o == worker[w].op
           k == worker[w].pc
<1>1. /\ o # "none" /\ o \in Operations[store] /\ k \in 1..Len(Program(o))
      /\ Program(o)[k] = <<kind, f>> /\ store \in {"mail", "cron", "zone"}
    BY Stores DEF At, Busy, TypeInv, TypeOK, WorkerOK
<1>2. \/ o = "create_mailbox" /\ store = "mail" /\ k \in 1..4
      \/ o = "delete_mailbox" /\ store = "mail" /\ k \in 1..7
      \/ o = "add_cron_job" /\ store = "cron" /\ k \in 1..2
      \/ o = "add_record" /\ store = "zone" /\ k \in 1..5
    BY <1>1, Stores, Lengths
<1> HIDE DEF o, k
<1>3. CASE o = "create_mailbox"
    BY <1>1, <1>2, <1>3 DEF Program, CreateMailbox, o, k
<1>4. CASE o = "delete_mailbox"
    BY <1>1, <1>2, <1>4 DEF Program, DeleteMailbox, o, k
<1>5. CASE o = "add_cron_job"
    BY <1>1, <1>2, <1>5 DEF Program, AddCronJob, o, k
<1>6. CASE o = "add_record"
    BY <1>1, <1>2, <1>6 DEF Program, AddRecord, o, k
<1> QED
    BY <1>2, <1>3, <1>4, <1>5, <1>6

\* When a worker has a file truncated.
LEMMA Holding ==
    ASSUME TypeInv, NEW w \in Workers, NEW f
    PROVE  Holds(w, f) <=>
              \/ worker[w].op = "delete_mailbox" /\ worker[w].pc = 3 /\ f = "passwd"
              \/ worker[w].op = "delete_mailbox" /\ worker[w].pc = 6 /\ f = "vmailbox"
              \/ worker[w].op = "add_record" /\ worker[w].pc = 4 /\ f = "zonefile"
<1> DEFINE o == worker[w].op
           k == worker[w].pc
<1>1. CASE o = "none"
    BY <1>1 DEF Holds, Busy
<1>2. CASE o # "none"
    <2>1. \/ o = "create_mailbox" /\ k \in 1..4
          \/ o = "delete_mailbox" /\ k \in 1..7
          \/ o = "add_cron_job" /\ k \in 1..2
          \/ o = "add_record" /\ k \in 1..5
        BY <1>2, Stores, Lengths, ZenonT(40) DEF TypeInv, TypeOK, WorkerOK
    <2>2. Holds(w, f) <=> k > 1 /\ Program(o)[k - 1] = <<"open", f>>
        BY <1>2 DEF Holds, Busy
    <2> HIDE DEF o, k
    <2>3. CASE o = "create_mailbox"
        BY <2>1, <2>2, <2>3 DEF Program, CreateMailbox, o, k
    <2>4. CASE o = "delete_mailbox"
        BY <2>1, <2>2, <2>4 DEF Program, DeleteMailbox, o, k
    <2>5. CASE o = "add_cron_job"
        BY <2>1, <2>2, <2>5 DEF Program, AddCronJob, o, k
    <2>6. CASE o = "add_record"
        BY <2>1, <2>2, <2>6 DEF Program, AddRecord, o, k
    <2> QED
        BY <2>1, <2>3, <2>4, <2>5, <2>6
<1> QED
    BY <1>1, <1>2

-----------------------------------------------------------------------------
(* Types                                                                   *)

Contents == SUBSET (Entries[store] \cup {SOA})
Request == [op : Operations[store] \cup {"none"}, entry : Entries[store] \cup {SOA},
            pc : 0..7, lines : Contents, hung : BOOLEAN]

\* The request w goes on with its next step.
Continues(w) ==
    /\ worker[w].pc < Len(Program(worker[w].op))
    /\ worker' = [worker EXCEPT ![w].pc = @ + 1]
    /\ UNCHANGED history

\* The request w is answered with success.
Completes(w) ==
    /\ worker[w].pc = Len(Program(worker[w].op))
    /\ worker' = [worker EXCEPT ![w] = Idle]
    /\ exposed' = exposed
    /\ IF worker[w].op = "delete_mailbox"
       THEN gone' = gone \cup {worker[w].entry} /\ acked' = acked
       ELSE acked' = acked \cup {worker[w].entry} /\ gone' = gone

\* The requests there are.
LEMMA Serves ==
    ASSUME TypeInv, NEW w \in Busy
    PROVE  /\ w \in Workers /\ worker[w].entry \in Entries[store]
           /\ \/ /\ store = "mail" /\ worker[w].op = "create_mailbox"
                 /\ worker[w].pc \in 1..4 /\ Len(Program(worker[w].op)) = 4
              \/ /\ store = "mail" /\ worker[w].op = "delete_mailbox"
                 /\ worker[w].pc \in 1..7 /\ Len(Program(worker[w].op)) = 7
              \/ /\ store = "cron" /\ worker[w].op = "add_cron_job"
                 /\ worker[w].pc \in 1..2 /\ Len(Program(worker[w].op)) = 2
              \/ /\ store = "zone" /\ worker[w].op = "add_record"
                 /\ worker[w].pc \in 1..5 /\ Len(Program(worker[w].op)) = 5
           /\ Len(Program(worker[w].op)) \in 1..7
           /\ worker[w].pc \in 1..Len(Program(worker[w].op))
           /\ worker[w].pc < Len(Program(worker[w].op)) =>
                worker[w].pc + 1 \in 1..Len(Program(worker[w].op)) /\ worker[w].pc + 1 \in 0..7
           /\ worker[w].pc < Len(Program(worker[w].op)) \/ worker[w].pc = Len(Program(worker[w].op))
<1> DEFINE o == worker[w].op
           k == worker[w].pc
<1>1. /\ w \in Workers /\ o \in Operations[store] /\ worker[w].entry \in Entries[store]
      /\ k \in 1..Len(Program(o)) /\ store \in {"mail", "cron", "zone"}
    BY Stores DEF Busy, TypeInv, TypeOK, WorkerOK
<1> HIDE DEF o, k
<1>2. \/ o = "create_mailbox" /\ store = "mail" /\ k \in 1..4 /\ Len(Program(o)) = 4
      \/ o = "delete_mailbox" /\ store = "mail" /\ k \in 1..7 /\ Len(Program(o)) = 7
      \/ o = "add_cron_job" /\ store = "cron" /\ k \in 1..2 /\ Len(Program(o)) = 2
      \/ o = "add_record" /\ store = "zone" /\ k \in 1..5 /\ Len(Program(o)) = 5
    BY <1>1, Stores, Lengths
<1> DEFINE n == Len(Program(o))
<1>3. n \in {2, 4, 5, 7} /\ k \in 1..n
    BY <1>1, <1>2
<1> HIDE DEF n
<1>4. /\ n \in 1..7 /\ k \in 1..n
      /\ k < n => k + 1 \in 1..n /\ k + 1 \in 0..7
      /\ k < n \/ k = n
    BY <1>3
<1>5. /\ Len(Program(o)) \in 1..7 /\ k \in 1..Len(Program(o))
      /\ k < Len(Program(o)) => k + 1 \in 1..Len(Program(o)) /\ k + 1 \in 0..7
      /\ k < Len(Program(o)) \/ k = Len(Program(o))
    BY <1>4, Zenon DEF n
<1> QED
    BY <1>1, <1>2, <1>5, Zenon DEF o, k

LEMMA Advances ==
    ASSUME TypeInv, NEW w \in Busy, Advance(w)
    PROVE  Continues(w) \/ Completes(w)
<1>1. worker[w].pc < Len(Program(worker[w].op)) \/ worker[w].pc = Len(Program(worker[w].op))
    BY Serves, Zenon
<1>2. ~(worker[w].pc < Len(Program(worker[w].op)) /\ worker[w].pc = Len(Program(worker[w].op)))
    <2>1. worker[w].pc \in 1..Len(Program(worker[w].op)) /\ Len(Program(worker[w].op)) \in 1..7
        BY Serves, Zenon
    <2> DEFINE n == Len(Program(worker[w].op))
    <2> HIDE DEF n
    <2>2. n \in 1..7
        BY <2>1, Zenon DEF n
    <2>3. ~(n < n)
        BY <2>2
    <2> QED
        BY <2>3, Zenon DEF n
<1> QED
    BY <1>1, <1>2 DEF Advance, Continues, Completes, history

LEMMA IdleType == Idle \in Request
BY DEF Idle, Request, Contents

\* The invariant's worker part after a step of w.
LEMMA WorkerType ==
    ASSUME TypeInv, NEW w \in Busy, UNCHANGED store,
           \/ worker' = [worker EXCEPT ![w] = Idle]
           \/ /\ worker[w].pc < Len(Program(worker[w].op))
              /\ \/ worker' = [worker EXCEPT ![w].pc = @ + 1]
                 \/ \E ls \in Contents : worker' = [worker EXCEPT ![w].lines = ls, ![w].pc = @ + 1]
           \/ worker' = [worker EXCEPT ![w].hung = TRUE]
    PROVE  worker' \in [Workers -> Request] /\ \A v \in Workers : WorkerOK(v)'
<1>1. /\ worker \in [Workers -> Request] /\ w \in Workers
      /\ worker[w].op \in Operations[store] /\ worker[w].entry \in Entries[store]
      /\ worker[w].pc \in 1..Len(Program(worker[w].op))
      /\ Len(Program(worker[w].op)) \in 1..7
      /\ \A v \in Workers : WorkerOK(v)
    <2>1. worker \in [Workers -> Request] /\ \A v \in Workers : WorkerOK(v)
        BY DEF TypeInv, TypeOK, Request, Contents
    <2>2. w \in Workers /\ worker[w].op \in Operations[store] /\ worker[w].entry \in Entries[store]
        BY <2>1 DEF WorkerOK, Busy
    <2>3. Len(Program(worker[w].op)) \in 1..7 /\ worker[w].pc \in 1..Len(Program(worker[w].op))
        BY Serves, Zenon
    <2> QED
        BY <2>1, <2>2, <2>3
<1>2. worker[w] \in Request /\ "none" \notin Operations[store]
    BY <1>1, Stores DEF TypeInv, TypeOK
<1>3. CASE worker' = [worker EXCEPT ![w] = Idle]
    BY <1>1, <1>3, IdleType DEF WorkerOK, Idle
<1>4. CASE worker' = [worker EXCEPT ![w].hung = TRUE]
    <2>1. [worker[w] EXCEPT !.hung = TRUE] \in Request
        BY <1>2 DEF Request
    <2> QED
        BY <1>1, <1>2, <1>4, <2>1 DEF WorkerOK, Request
<1>5. ASSUME worker[w].pc < Len(Program(worker[w].op)), NEW ls \in Contents,
             worker' = [worker EXCEPT ![w].lines = ls, ![w].pc = @ + 1]
      PROVE  worker' \in [Workers -> Request] /\ \A v \in Workers : WorkerOK(v)'
    <2>1. worker[w].pc + 1 \in 1..Len(Program(worker[w].op)) /\ worker[w].pc + 1 \in 0..7
        BY Serves, <1>5, Zenon
    <2>2. [worker[w] EXCEPT !.lines = ls, !.pc = @ + 1] \in Request
        BY <1>2, <2>1 DEF Request
    <2> QED
        BY <1>1, <1>2, <1>5, <2>1, <2>2 DEF WorkerOK, Request
<1>6. ASSUME worker[w].pc < Len(Program(worker[w].op)), worker' = [worker EXCEPT ![w].pc = @ + 1]
      PROVE  worker' \in [Workers -> Request] /\ \A v \in Workers : WorkerOK(v)'
    <2>1. worker[w].pc + 1 \in 1..Len(Program(worker[w].op)) /\ worker[w].pc + 1 \in 0..7
        BY Serves, <1>6, Zenon
    <2>2. [worker[w] EXCEPT !.pc = @ + 1] \in Request
        BY <1>2, <2>1 DEF Request
    <2> QED
        BY <1>1, <1>2, <1>6, <2>1, <2>2 DEF WorkerOK, Request
<1> QED
    BY <1>3, <1>4, <1>5, <1>6

\* All that TypeInv says of the other variables.
Plain ==
    /\ store \in DOMAIN Entries /\ files \in [Files[store] -> Contents] /\ index \in Contents
    /\ queued \in BOOLEAN /\ (queued => store = "zone")
    /\ requests \in 0..MaxRequests
    /\ acked \subseteq Entries[store] /\ gone \subseteq Entries[store]
    /\ exposed \subseteq Entries[store]

LEMMA TypeParts ==
    TypeInv <=> Plain /\ worker \in [Workers -> Request] /\ \A w \in Workers : WorkerOK(w)
BY DEF TypeInv, TypeOK, Plain, Request, Contents

LEMMA TypePartsNext ==
    ASSUME Plain', UNCHANGED store, worker' \in [Workers -> Request],
           \A w \in Workers : WorkerOK(w)'
    PROVE  TypeInv'
<1>1. Request' = Request
    BY DEF Request, Contents
<1>2. (worker \in [Workers -> Request])'
    BY <1>1
<1> QED
    BY <1>2 DEF TypeInv, TypeOK, Plain, Request, Contents

LEMMA InitType == Init => TypeInv
<1> SUFFICES ASSUME Init PROVE TypeInv
    OBVIOUS
<1>1. Plain
    <2>1. files \in [Files[store] -> Contents] /\ index \in Contents
        BY DEF Init, Contents
    <2>2. requests \in 0..MaxRequests
        BY RequestAssumption DEF Init
    <2> QED
        BY <2>1, <2>2 DEF Init, Plain
<1>2. worker \in [Workers -> Request]
    BY IdleType DEF Init
<1>3. \A w \in Workers : WorkerOK(w)
    BY DEF Init, WorkerOK, Idle
<1> QED
    BY <1>1, <1>2, <1>3, TypeParts

LEMMA AdvanceType ==
    ASSUME TypeInv, NEW w \in Busy, Advance(w), UNCHANGED <<store, requests>>,
           files' \in [Files[store] -> Contents], index' \in Contents,
           queued' \in BOOLEAN, queued' => store = "zone"
    PROVE  TypeInv'
<1>1. Continues(w) \/ Completes(w)
    BY Advances
<1>2. worker' \in [Workers -> Request] /\ \A v \in Workers : WorkerOK(v)'
    BY <1>1, WorkerType DEF Continues, Completes
<1>3. worker[w].entry \in Entries[store]
    BY DEF TypeInv, WorkerOK, Busy
<1>4. /\ acked' \subseteq Entries[store] /\ gone' \subseteq Entries[store]
      /\ exposed' \subseteq Entries[store]
    BY <1>1, <1>3, TypeParts DEF Plain, Continues, Completes, history
<1>5. Plain'
    BY <1>4, TypeParts DEF Plain, Contents
<1> QED
    BY <1>2, <1>5, TypePartsNext, Zenon

LEMMA EndType ==
    ASSUME TypeInv, NEW w \in Busy, End(w)
    PROVE  TypeInv'
<1>1. worker' \in [Workers -> Request] /\ \A v \in Workers : WorkerOK(v)'
    BY WorkerType DEF End
<1>2. Plain' /\ UNCHANGED store
    BY TypeParts DEF Plain, End, Abandoned, Contents
<1> QED
    BY <1>1, <1>2, TypePartsNext, Zenon

\* The files hold entries only, whatever handler runs and wherever it is
\* interrupted.
LEMMA StepType ==
    ASSUME TypeInv, NEW w \in Workers, Step(w) \/ ToolHangs(w) \/ WorkerDies(w)
    PROVE  TypeInv'
<1>0. /\ files \in [Files[store] -> Contents] /\ index \in Contents
      /\ worker \in [Workers -> Request] /\ store \in {"mail", "cron", "zone"}
      /\ queued \in BOOLEAN /\ (queued => store = "zone")
    BY TypeParts, Stores DEF Plain
<1>1. ASSUME w \in Busy
      PROVE  /\ worker[w].lines \in Contents /\ worker[w].entry \in Entries[store]
             /\ worker[w].op # "create_mailbox" =>
                   Rewritten(worker[w].op, worker[w].entry, worker[w].lines) \in Contents
    <2>1. /\ worker[w].lines \in Contents /\ worker[w].entry \in Entries[store]
          /\ worker[w].op \in {"create_mailbox", "delete_mailbox", "add_cron_job", "add_record"}
        BY <1>0, <1>1, Stores DEF TypeInv, WorkerOK, Busy, Request
    <2>2. \A l \in Contents : \A e \in Entries[store] :
            {m \in l : <<m, e>> \notin StartsWith} \in Contents /\ l \cup {e} \in Contents
        BY DEF Contents
    <2>3. \/ /\ worker[w].op = "delete_mailbox"
             /\ Rewritten(worker[w].op, worker[w].entry, worker[w].lines) =
                    {m \in worker[w].lines : <<m, worker[w].entry>> \notin StartsWith}
          \/ /\ worker[w].op = "add_cron_job"
             /\ Rewritten(worker[w].op, worker[w].entry, worker[w].lines) =
                    worker[w].lines \cup {worker[w].entry}
          \/ /\ worker[w].op = "add_record"
             /\ Rewritten(worker[w].op, worker[w].entry, worker[w].lines) = worker[w].lines
          \/ worker[w].op = "create_mailbox"
        BY <2>1 DEF Rewritten
    <2> QED
        BY <2>1, <2>2, <2>3
<1>2. ASSUME NEW f \in Files[store], AppendLine(w, f) PROVE TypeInv'
    <2>1. w \in Busy /\ files[f] \in Contents
        BY <1>0, <1>2 DEF AppendLine, At
    <2>2. files' \in [Files[store] -> Contents]
        BY <1>0, <1>1, <1>2, <2>1 DEF AppendLine, Contents
    <2> QED
        BY <1>0, <1>2, <2>1, <2>2, AdvanceType DEF AppendLine
<1>3. ASSUME NEW f \in Files[store], ReadLines(w, f) PROVE TypeInv'
    <2>1. w \in Busy /\ files[f] \in Contents /\ worker[w].pc < Len(Program(worker[w].op))
        <3>1. At(w, "read", f) /\ w \in Busy
            BY <1>3 DEF ReadLines, At
        <3>2. \/ worker[w].op = "delete_mailbox" /\ worker[w].pc \in {1, 4}
              \/ worker[w].op = "add_record" /\ worker[w].pc = 2
            BY <3>1, Steps
        <3>3. /\ worker[w].op = "delete_mailbox" => Len(Program(worker[w].op)) = 7
              /\ worker[w].op = "add_record" => Len(Program(worker[w].op)) = 5
            BY Lengths, Zenon
        <3>4. worker[w].pc < Len(Program(worker[w].op))
            <4> DEFINE n == Len(Program(worker[w].op))
                       k == worker[w].pc
            <4>1. (n = 2 /\ k = 1) \/ (n = 7 /\ k \in {1, 4}) \/ (n = 5 /\ k = 2)
                BY <3>2, <3>3, Zenon
            <4> HIDE DEF n, k
            <4>2. k < n
                BY <4>1
            <4> QED
                BY <4>2, Zenon DEF n, k
        <3> QED
            BY <1>0, <3>1, <3>4
    <2>2. worker' \in [Workers -> Request] /\ \A v \in Workers : WorkerOK(v)'
        BY <1>3, <2>1, WorkerType DEF ReadLines
    <2>3. Plain' /\ UNCHANGED store
        BY <1>3, TypeParts DEF ReadLines, history, Plain, Contents
    <2> QED
        BY <2>2, <2>3, TypePartsNext, Zenon
<1>4. ASSUME NEW f \in Files[store], Truncate(w, f) PROVE TypeInv'
    <2>1. w \in Busy
        BY <1>4 DEF Truncate, At
    <2>2. files' \in [Files[store] -> Contents]
        BY <1>0, <1>4 DEF Truncate, Contents
    <2> QED
        BY <1>0, <1>4, <2>1, <2>2, AdvanceType DEF Truncate
<1>5. ASSUME NEW f \in Files[store], Write(w, f) PROVE TypeInv'
    <2>1. w \in Busy /\ files[f] \in Contents /\ At(w, "write", f)
        BY <1>0, <1>5 DEF Write, At
    <2>3. worker[w].op # "create_mailbox"
        BY <2>1, Steps
    <2>2. files' \in [Files[store] -> Contents]
        <3>1. PICK rest \in SUBSET files[f] : files' = [files EXCEPT ![f] =
                Rewritten(worker[w].op, worker[w].entry, worker[w].lines) \cup rest]
            BY <1>5 DEF Write
        <3>2. Rewritten(worker[w].op, worker[w].entry, worker[w].lines) \cup rest \in Contents
            BY <1>1, <2>1, <2>3 DEF Contents
        <3> QED
            BY <1>0, <3>1, <3>2
    <2> QED
        BY <1>0, <1>5, <2>1, <2>2, AdvanceType DEF Write
<1>6. ASSUME NEW ok \in BOOLEAN, ListCrontab(w, ok) PROVE TypeInv'
    <2>1. w \in Busy /\ worker[w].pc < Len(Program(worker[w].op)) /\ store = "cron"
        <3>1. At(w, "list", "crontab") /\ w \in Busy
            BY <1>6 DEF ListCrontab, At
        <3>2. worker[w].op = "add_cron_job" /\ worker[w].pc = 1 /\ store = "cron"
            BY <3>1, Steps
        <3>3. Len(Program(worker[w].op)) = 2
            BY <3>2, Lengths, Zenon
        <3>4. worker[w].pc < Len(Program(worker[w].op))
            <4> DEFINE n == Len(Program(worker[w].op))
                       k == worker[w].pc
            <4>1. (n = 2 /\ k = 1) \/ (n = 7 /\ k \in {1, 4}) \/ (n = 5 /\ k = 2)
                BY <3>2, <3>3, Zenon
            <4> HIDE DEF n, k
            <4>2. k < n
                BY <4>1
            <4> QED
                BY <4>2, Zenon DEF n, k
        <3> QED
            BY <3>1, <3>2, <3>4
    <2>2. files["crontab"] \in Contents /\ {} \in Contents
        BY <1>0, <2>1, Stores DEF Contents
    <2>3. worker' \in [Workers -> Request] /\ \A v \in Workers : WorkerOK(v)'
        <3>1. \E ls \in Contents : worker' = [worker EXCEPT ![w].lines = ls, ![w].pc = @ + 1]
            BY <1>6, <2>2 DEF ListCrontab
        <3> QED
            BY <1>6, <2>1, <3>1, WorkerType DEF ListCrontab
    <2>4. Plain' /\ UNCHANGED store
        BY <1>6, <2>1, Stores, TypeParts DEF ListCrontab, Plain, Contents
    <2> QED
        BY <2>3, <2>4, TypePartsNext, Zenon
<1>7. ASSUME NEW tool \in {"postmap", "rndc", "doveadm"}, Run(w, tool) PROVE TypeInv'
    <2>1. /\ w \in Busy /\ (tool = "postmap" => store = "mail") /\ (tool = "rndc" => store = "zone")
        BY <1>7, Steps DEF Run, At
    <2>2. index' \in Contents
        BY <1>0, <1>7, <2>1, Stores DEF Run
    <2>3. queued' \in BOOLEAN /\ (queued' => store = "zone")
        BY <1>0, <1>7, <2>1 DEF Run
    <2> QED
        BY <1>0, <1>7, <2>1, <2>2, <2>3, AdvanceType DEF Run
<1>8. CASE InstallCrontab(w)
    <2>1. w \in Busy /\ At(w, "install", "crontab")
        BY <1>8 DEF InstallCrontab, At
    <2>3. store = "cron" /\ worker[w].op = "add_cron_job"
        BY <2>1, Steps
    <2>2. files' \in [Files[store] -> Contents]
        BY <1>0, <1>1, <1>8, <2>1, <2>3, Stores DEF InstallCrontab
    <2> QED
        BY <1>0, <1>8, <2>1, <2>2, AdvanceType DEF InstallCrontab
<1>9. CASE ToolFails(w) \/ KillHung(w) \/ WorkerDies(w)
    BY <1>9, EndType, SMTT(30) DEF ToolFails, KillHung, WorkerDies, At
<1>10. CASE ToolHangs(w)
    <2>1. w \in Busy
        BY <1>10, Zenon DEF ToolHangs, At
    <2>2. worker' \in [Workers -> Request] /\ \A v \in Workers : WorkerOK(v)'
        BY <1>10, <2>1, WorkerType DEF ToolHangs
    <2>3. Plain' /\ UNCHANGED store
        BY <1>10, TypeParts DEF ToolHangs, history, Plain, Contents
    <2> QED
        BY <2>2, <2>3, TypePartsNext, Zenon
<1> QED
    BY <1>2, <1>3, <1>4, <1>5, <1>6, <1>7, <1>8, <1>9, <1>10 DEF Step

LEMMA BeginType ==
    ASSUME TypeInv, NEW w \in Workers, NEW op \in Operations[store], NEW e \in Entries[store],
           Begin(w, op, e)
    PROVE  TypeInv'
<1>0. worker \in [Workers -> Request] /\ Plain /\ \A v \in Workers : WorkerOK(v)
    BY TypeParts
<1>1. /\ store \in {"mail", "cron", "zone"}
      /\ op \in {"create_mailbox", "delete_mailbox", "add_cron_job", "add_record"}
      /\ op = "delete_mailbox" => Entries[store] = Mailboxes
      /\ op = "add_record" => Entries[store] = Records
    BY <1>0, Stores DEF Plain
<1>2. Risked(op, e) \subseteq Entries[store]
    <2>1. \A v \in Busy : worker[v].entry \in Entries[store]
        BY <1>0 DEF WorkerOK, Busy
    <2>2. \A o : Serving(o) \subseteq Entries[store]
        BY <2>1 DEF Serving
    <2>3. CASE op = "create_mailbox"
        BY <2>3 DEF Risked
    <2>4. CASE op = "delete_mailbox"
        BY <1>1, <2>2, <2>4 DEF Risked
    <2>5. CASE op = "add_cron_job"
        BY <2>2, <2>5 DEF Risked
    <2>6. CASE op = "add_record"
        BY <1>1, <2>6 DEF Risked
    <2> QED
        BY <1>1, <2>3, <2>4, <2>5, <2>6
<1>3. Plain'
    <2>1. requests' \in 0..MaxRequests
        BY <1>0, RequestAssumption DEF Begin, Plain
    <2>2. exposed' \subseteq Entries[store]
        BY <1>0, <1>2 DEF Begin, Plain
    <2>3. acked' \subseteq acked /\ gone' \subseteq gone
        BY DEF Begin
    <2> QED
        BY <1>0, <2>1, <2>2, <2>3 DEF Begin, Plain, Contents
<1>4. 1 \in 1..Len(Program(op)) /\ op # "none"
    <2>1. Len(Program(op)) \in {2, 4, 5, 7}
        BY <1>1, Lengths
    <2> DEFINE n == Len(Program(op))
    <2> HIDE DEF n
    <2>2. n \in {2, 4, 5, 7}
        BY <2>1, Zenon DEF n
    <2>3. 1 \in 1..n
        BY <2>2
    <2> QED
        BY <1>1, <2>3 DEF n
<1> DEFINE r == [Idle EXCEPT !.op = op, !.entry = e, !.pc = 1]
<1>5. /\ r \in Request
      /\ r.op = op /\ r.entry = e /\ r.pc = 1
    <2>1. PICK i \in Request : i = Idle
        BY IdleType
    <2>2. [i EXCEPT !.op = op, !.entry = e, !.pc = 1] \in Request
        <3> DEFINE A == Operations[store] \cup {"none"}
                   B == Entries[store] \cup {SOA}
                   C == 0..7
        <3>1. op \in A /\ e \in B /\ 1 \in C
            OBVIOUS
        <3>2. i \in [op : A, entry : B, pc : C, lines : Contents, hung : BOOLEAN]
            BY DEF Request
        <3> HIDE DEF A, B, C
        <3>3. [i EXCEPT !.op = op, !.entry = e, !.pc = 1]
                \in [op : A, entry : B, pc : C, lines : Contents, hung : BOOLEAN]
            BY <3>1, <3>2
        <3> QED
            BY <3>3 DEF Request, A, B, C
    <2>3. r.op = op /\ r.entry = e /\ r.pc = 1
        BY DEF Idle
    <2> QED
        BY <2>1, <2>2, <2>3
<1>6. worker' = [worker EXCEPT ![w] = r] /\ UNCHANGED store
    BY DEF Begin
<1> HIDE DEF r
<1>7. worker' \in [Workers -> Request] /\ \A v \in Workers : WorkerOK(v)'
    <2>1. worker' \in [Workers -> Request]
        BY <1>0, <1>5, <1>6
    <2>2. ASSUME NEW v \in Workers PROVE WorkerOK(v)'
        <3>1. CASE v = w
            <4>1. worker'[v].op = op /\ worker'[v].entry = e /\ worker'[v].pc = 1
                BY <1>0, <1>5, <1>6, <3>1
            <4> QED
                BY <1>4, <1>6, <4>1 DEF WorkerOK
        <3>2. CASE v # w
            BY <1>0, <1>6, <3>2 DEF WorkerOK
        <3> QED
            BY <3>1, <3>2
    <2> QED
        BY <2>1, <2>2
<1> QED
    BY <1>3, <1>6, <1>7, TypePartsNext, Zenon

LEMMA LoadType == TypeInv /\ LoadZone => TypeInv' /\ store = "zone"
<1> SUFFICES ASSUME TypeInv, LoadZone PROVE TypeInv' /\ store = "zone"
    OBVIOUS
<1>1. store = "zone"
    BY DEF TypeInv, TypeOK, LoadZone
<1>2. Plain' /\ UNCHANGED <<store, worker>>
    BY <1>1, TypeParts, Stores DEF Plain, LoadZone, history, Contents
<1>3. worker' \in [Workers -> Request] /\ \A v \in Workers : WorkerOK(v)'
    BY <1>2, TypeParts DEF WorkerOK
<1> QED
    BY <1>1, <1>2, <1>3, TypePartsNext, Zenon

LEMMA SpecTypeInv == Spec => []TypeInv
<1>1. TypeInv /\ [Next]_vars => TypeInv'
    <2> SUFFICES ASSUME TypeInv, [Next]_vars PROVE TypeInv'
        OBVIOUS
    <2>1. CASE UNCHANGED vars
        BY <2>1 DEF vars, TypeInv, TypeOK, WorkerOK
    <2> QED
        BY <2>1, StepType, BeginType, LoadType DEF Next
<1> QED
    BY <1>1, InitType, PTL DEF Spec

\* The files hold entries of their store and nothing else, for any number of
\* workers and requests, through every interruption.
THEOREM SpecTypeOK == Spec => []TypeOK
<1>1. TypeInv => TypeOK
    BY DEF TypeInv
<1> QED
    BY <1>1, SpecTypeInv, PTL

-----------------------------------------------------------------------------
(* What the steps of a handler do, handler by handler                      *)

Others(w) == \A v \in Workers \ {w} : worker'[v] = worker[v]

\* w has gone on to step k of the same request, having read the lines ls.
Goes(w, k, ls) ==
    /\ worker'[w].op = worker[w].op /\ worker'[w].entry = worker[w].entry
    /\ worker'[w].pc = k /\ worker'[w].lines = ls
    /\ Others(w)

\* w has no request any more.
Rests(w) == worker'[w] = Idle /\ Others(w)

Creates(w) ==
    \/ worker[w].pc = 1 /\ Goes(w, 2, worker[w].lines) /\ UNCHANGED <<files, index, history>>
    \/ /\ worker[w].pc = 2 /\ Goes(w, 3, worker[w].lines) /\ UNCHANGED <<index, history>>
       /\ files'["passwd"] = files["passwd"] \cup {worker[w].entry}
       /\ files'["vmailbox"] = files["vmailbox"]
    \/ /\ worker[w].pc = 3 /\ Goes(w, 4, worker[w].lines) /\ UNCHANGED <<index, history>>
       /\ files'["passwd"] = files["passwd"]
       /\ files'["vmailbox"] = files["vmailbox"] \cup {worker[w].entry}
    \/ /\ worker[w].pc = 4 /\ Rests(w) /\ UNCHANGED <<files, gone, exposed>>
       /\ acked' = acked \cup {worker[w].entry} /\ index' = files["vmailbox"]

\* A file f rewritten by w: what is kept of the lines read, and what others
\* have put there meanwhile.
Rewrites(w, f, g) ==
    /\ files'[g] = files[g]
    /\ \E rest \in SUBSET files[f] :
          files'[f] = {m \in worker[w].lines : <<m, worker[w].entry>> \notin StartsWith} \cup rest

Deletes(w) ==
    \/ worker[w].pc = 1 /\ Goes(w, 2, files["passwd"]) /\ UNCHANGED <<files, index, history>>
    \/ /\ worker[w].pc = 2 /\ Goes(w, 3, worker[w].lines) /\ UNCHANGED <<index, history>>
       /\ files'["passwd"] = {} /\ files'["vmailbox"] = files["vmailbox"]
    \/ /\ worker[w].pc = 3 /\ Goes(w, 4, worker[w].lines) /\ UNCHANGED <<index, history>>
       /\ Rewrites(w, "passwd", "vmailbox")
    \/ worker[w].pc = 4 /\ Goes(w, 5, files["vmailbox"]) /\ UNCHANGED <<files, index, history>>
    \/ /\ worker[w].pc = 5 /\ Goes(w, 6, worker[w].lines) /\ UNCHANGED <<index, history>>
       /\ files'["passwd"] = files["passwd"] /\ files'["vmailbox"] = {}
    \/ /\ worker[w].pc = 6 /\ Goes(w, 7, worker[w].lines) /\ UNCHANGED <<index, history>>
       /\ Rewrites(w, "vmailbox", "passwd")
    \/ /\ worker[w].pc = 7 /\ Rests(w) /\ UNCHANGED <<files, acked, exposed>>
       /\ gone' = gone \cup {worker[w].entry} /\ index' = files["vmailbox"]

Schedules(w) ==
    \/ /\ worker[w].pc = 1 /\ UNCHANGED <<files, index, acked, gone>>
       /\ \/ Goes(w, 2, files["crontab"]) /\ exposed' = exposed
          \/ Goes(w, 2, {}) /\ exposed' = exposed \cup Jobs
    \/ /\ worker[w].pc = 2 /\ Rests(w) /\ UNCHANGED <<index, gone, exposed>>
       /\ files'["crontab"] = worker[w].lines \cup {worker[w].entry}
       /\ acked' = acked \cup {worker[w].entry}

Adds(w) ==
    \/ /\ worker[w].pc = 1 /\ Goes(w, 2, worker[w].lines) /\ UNCHANGED <<index, queued, history>>
       /\ files'["zonefile"] = files["zonefile"] \cup {worker[w].entry}
    \/ /\ worker[w].pc = 2 /\ Goes(w, 3, files["zonefile"])
       /\ UNCHANGED <<files, index, queued, history>>
    \/ /\ worker[w].pc = 3 /\ Goes(w, 4, worker[w].lines) /\ UNCHANGED <<index, queued, history>>
       /\ files'["zonefile"] = {}
    \/ /\ worker[w].pc = 4 /\ Goes(w, 5, worker[w].lines) /\ UNCHANGED <<index, queued, history>>
       /\ \E rest \in SUBSET files["zonefile"] : files'["zonefile"] = worker[w].lines \cup rest
    \/ /\ worker[w].pc = 5 /\ Rests(w) /\ UNCHANGED <<files, index, gone, exposed>>
       /\ acked' = acked \cup {worker[w].entry}
       /\ queued'

\* A step is one of its handler's, or the request ends early.
Handler(w) ==
    \/ store = "mail" /\ worker[w].op = "create_mailbox" /\ Creates(w)
    \/ store = "mail" /\ worker[w].op = "delete_mailbox" /\ Deletes(w)
    \/ store = "cron" /\ worker[w].op = "add_cron_job" /\ Schedules(w)
    \/ store = "zone" /\ worker[w].op = "add_record" /\ Adds(w)

\* An advance, with the numbers of the steps.
LEMMA Advancing ==
    ASSUME TypeInv, NEW w \in Busy, Advance(w)
    PROVE  \/ /\ Goes(w, worker[w].pc + 1, worker[w].lines) /\ UNCHANGED history
              /\ \/ worker[w].op = "create_mailbox" /\ worker[w].pc \in 1..3
                 \/ worker[w].op = "delete_mailbox" /\ worker[w].pc \in 1..6
                 \/ worker[w].op = "add_cron_job" /\ worker[w].pc = 1
                 \/ worker[w].op = "add_record" /\ worker[w].pc \in 1..4
           \/ /\ Rests(w) /\ exposed' = exposed
              /\ \/ worker[w].op = "create_mailbox" /\ worker[w].pc = 4
                 \/ worker[w].op = "delete_mailbox" /\ worker[w].pc = 7
                 \/ worker[w].op = "add_cron_job" /\ worker[w].pc = 2
                 \/ worker[w].op = "add_record" /\ worker[w].pc = 5
              /\ worker[w].op = "delete_mailbox" =>
                    gone' = gone \cup {worker[w].entry} /\ acked' = acked
              /\ worker[w].op # "delete_mailbox" =>
                    acked' = acked \cup {worker[w].entry} /\ gone' = gone
<1> DEFINE n == Len(Program(worker[w].op))
           k == worker[w].pc
           o == worker[w].op
<1>1. /\ \/ o = "create_mailbox" /\ k \in 1..4 /\ n = 4
         \/ o = "delete_mailbox" /\ k \in 1..7 /\ n = 7
         \/ o = "add_cron_job" /\ k \in 1..2 /\ n = 2
         \/ o = "add_record" /\ k \in 1..5 /\ n = 5
      /\ w \in Workers
    BY Serves, Zenon
<1>2. worker \in [Workers -> Request]
    BY TypeParts
<1>3. CASE Continues(w)
    <2>1. k < n
        BY <1>3 DEF Continues
    <2> HIDE DEF n, k, o
    <2>2. \/ o = "create_mailbox" /\ k \in 1..3
          \/ o = "delete_mailbox" /\ k \in 1..6
          \/ o = "add_cron_job" /\ k = 1
          \/ o = "add_record" /\ k \in 1..4
        BY <1>1, <2>1
    <2>3. Goes(w, worker[w].pc + 1, worker[w].lines) /\ UNCHANGED history
        BY <1>1, <1>2, <1>3 DEF Continues, Goes, Others, Request
    <2> QED
        BY <2>2, <2>3, Zenon DEF k, o
<1>4. CASE Completes(w)
    <2>1. k = n
        BY <1>4 DEF Completes
    <2> HIDE DEF n, k, o
    <2>2. \/ o = "create_mailbox" /\ k = 4
          \/ o = "delete_mailbox" /\ k = 7
          \/ o = "add_cron_job" /\ k = 2
          \/ o = "add_record" /\ k = 5
        BY <1>1, <2>1
    <2>3. Rests(w) /\ exposed' = exposed
        BY <1>1, <1>2, <1>4 DEF Completes, Rests, Others
    <2>4. /\ worker[w].op = "delete_mailbox" =>
                gone' = gone \cup {worker[w].entry} /\ acked' = acked
          /\ worker[w].op # "delete_mailbox" =>
                acked' = acked \cup {worker[w].entry} /\ gone' = gone
        BY <1>4 DEF Completes
    <2> QED
        BY <2>2, <2>3, <2>4, Zenon DEF k, o
<1> QED
    BY <1>3, <1>4, Advances

\* Every step of a worker is the one its handler is at.
LEMMA Handling ==
    ASSUME TypeInv, NEW w \in Workers, Step(w)
    PROVE  w \in Busy /\ (Handler(w) \/ End(w))
<1>0. /\ files \in [Files[store] -> Contents] /\ worker \in [Workers -> Request]
      /\ \A f : f \in Files["mail"] <=> f \in {"passwd", "vmailbox"}
      /\ Files["cron"] = {"crontab"} /\ Files["zone"] = {"zonefile"}
    BY TypeParts, Stores DEF Plain
<1>1. ASSUME NEW f \in Files[store], AppendLine(w, f) PROVE w \in Busy /\ Handler(w)
    <2>1. At(w, "append", f) /\ w \in Busy /\ Advance(w)
        BY <1>1 DEF AppendLine, At
    <2>2. \/ worker[w].op = "create_mailbox" /\ store = "mail" /\
                \/ worker[w].pc = 2 /\ f = "passwd"
                \/ worker[w].pc = 3 /\ f = "vmailbox"
          \/ worker[w].op = "add_record" /\ store = "zone" /\ worker[w].pc = 1 /\ f = "zonefile"
        BY <2>1, Steps
    <2>3. /\ Goes(w, worker[w].pc + 1, worker[w].lines) /\ UNCHANGED history
          /\ UNCHANGED <<index, queued>> /\ files' = [files EXCEPT ![f] = @ \cup {worker[w].entry}]
        BY <1>1, <2>1, <2>2, Advancing DEF AppendLine
    <2> QED
        BY <1>0, <2>1, <2>2, <2>3 DEF Handler, Creates, Adds
<1>2. ASSUME NEW f \in Files[store], ReadLines(w, f) PROVE w \in Busy /\ Handler(w)
    <2>1. At(w, "read", f) /\ w \in Busy
        BY <1>2 DEF ReadLines, At
    <2>2. \/ worker[w].op = "delete_mailbox" /\ store = "mail" /\
                \/ worker[w].pc = 1 /\ f = "passwd"
                \/ worker[w].pc = 4 /\ f = "vmailbox"
          \/ worker[w].op = "add_record" /\ store = "zone" /\ worker[w].pc = 2 /\ f = "zonefile"
        BY <2>1, Steps
    <2>3. Goes(w, worker[w].pc + 1, files[f]) /\ UNCHANGED <<files, index, queued, history>>
        BY <1>0, <1>2 DEF ReadLines, Goes, Others, Request
    <2> QED
        BY <2>1, <2>2, <2>3 DEF Handler, Deletes, Adds
<1>3. ASSUME NEW f \in Files[store], Truncate(w, f) PROVE w \in Busy /\ Handler(w)
    <2>1. At(w, "open", f) /\ w \in Busy /\ Advance(w)
        BY <1>3 DEF Truncate, At
    <2>2. \/ worker[w].op = "delete_mailbox" /\ store = "mail" /\
                \/ worker[w].pc = 2 /\ f = "passwd"
                \/ worker[w].pc = 5 /\ f = "vmailbox"
          \/ worker[w].op = "add_record" /\ store = "zone" /\ worker[w].pc = 3 /\ f = "zonefile"
        BY <2>1, Steps
    <2>3. /\ Goes(w, worker[w].pc + 1, worker[w].lines) /\ UNCHANGED history
          /\ UNCHANGED <<index, queued>> /\ files' = [files EXCEPT ![f] = {}]
        BY <1>3, <2>1, <2>2, Advancing DEF Truncate
    <2> QED
        BY <1>0, <2>1, <2>2, <2>3 DEF Handler, Deletes, Adds
<1>4. ASSUME NEW f \in Files[store], Write(w, f) PROVE w \in Busy /\ Handler(w)
    <2>1. At(w, "write", f) /\ w \in Busy /\ Advance(w)
        BY <1>4 DEF Write, At
    <2>2. \/ worker[w].op = "delete_mailbox" /\ store = "mail" /\
                \/ worker[w].pc = 3 /\ f = "passwd"
                \/ worker[w].pc = 6 /\ f = "vmailbox"
          \/ worker[w].op = "add_record" /\ store = "zone" /\ worker[w].pc = 4 /\ f = "zonefile"
        BY <2>1, Steps
    <2>3. /\ Goes(w, worker[w].pc + 1, worker[w].lines) /\ UNCHANGED history
          /\ UNCHANGED <<index, queued>>
        BY <1>4, <2>1, <2>2, Advancing DEF Write
    <2>4. PICK rest \in SUBSET files[f] : files' = [files EXCEPT ![f] =
            Rewritten(worker[w].op, worker[w].entry, worker[w].lines) \cup rest]
        BY <1>4 DEF Write
    <2>5. CASE worker[w].op = "delete_mailbox"
        <3>1. Rewritten(worker[w].op, worker[w].entry, worker[w].lines) =
                {m \in worker[w].lines : <<m, worker[w].entry>> \notin StartsWith}
            BY <2>5 DEF Rewritten
        <3>2. \/ worker[w].pc = 3 /\ Rewrites(w, "passwd", "vmailbox")
              \/ worker[w].pc = 6 /\ Rewrites(w, "vmailbox", "passwd")
            BY <1>0, <2>2, <2>4, <2>5, <3>1 DEF Rewrites
        <3> QED
            BY <2>1, <2>2, <2>3, <2>5, <3>2 DEF Handler, Deletes
    <2>6. CASE worker[w].op = "add_record"
        <3>1. Rewritten(worker[w].op, worker[w].entry, worker[w].lines) = worker[w].lines
            BY <2>6 DEF Rewritten
        <3>2. files'["zonefile"] = worker[w].lines \cup rest /\ rest \in SUBSET files["zonefile"]
            BY <1>0, <2>2, <2>4, <2>6, <3>1
        <3> QED
            BY <2>1, <2>2, <2>3, <2>6, <3>2 DEF Handler, Adds
    <2> QED
        BY <2>2, <2>5, <2>6
<1>5. ASSUME NEW ok \in BOOLEAN, ListCrontab(w, ok) PROVE w \in Busy /\ Handler(w)
    <2>1. At(w, "list", "crontab") /\ w \in Busy
        BY <1>5 DEF ListCrontab, At
    <2>2. worker[w].op = "add_cron_job" /\ store = "cron" /\ worker[w].pc = 1
        BY <2>1, Steps
    <2>3. /\ Goes(w, worker[w].pc + 1, IF ok THEN files["crontab"] ELSE {})
          /\ UNCHANGED <<files, index, acked, gone>>
          /\ exposed' = IF ok THEN exposed ELSE exposed \cup Jobs
        BY <1>0, <1>5 DEF ListCrontab, Goes, Others, Request
    <2> QED
        BY <2>1, <2>2, <2>3 DEF Handler, Schedules
<1>6. ASSUME NEW tool \in {"postmap", "rndc", "doveadm"}, Run(w, tool) PROVE w \in Busy /\ Handler(w)
    <2>1. At(w, "run", tool) /\ w \in Busy /\ Advance(w) /\ files' = files
        BY <1>6 DEF Run, At
    <2>2. \/ worker[w].op = "create_mailbox" /\ store = "mail" /\
                \/ worker[w].pc = 1 /\ tool = "doveadm"
                \/ worker[w].pc = 4 /\ tool = "postmap"
          \/ /\ worker[w].op = "delete_mailbox" /\ store = "mail"
             /\ worker[w].pc = 7 /\ tool = "postmap"
          \/ worker[w].op = "add_record" /\ store = "zone" /\ worker[w].pc = 5 /\ tool = "rndc"
        BY <2>1, Steps
    <2>3. /\ tool = "doveadm" => index' = index
          /\ tool = "postmap" => index' = files["vmailbox"]
          /\ tool = "rndc" => index' = index /\ queued'
        BY <1>6 DEF Run
    <2>4. CASE worker[w].pc = 1
        <3>1. Goes(w, worker[w].pc + 1, worker[w].lines) /\ UNCHANGED history
            BY <2>1, <2>2, <2>4, Advancing
        <3> QED
            BY <2>1, <2>2, <2>3, <2>4, <3>1 DEF Handler, Creates
    <2>5. CASE worker[w].pc # 1
        <3>1. /\ Rests(w) /\ exposed' = exposed
              /\ worker[w].op = "delete_mailbox" =>
                    gone' = gone \cup {worker[w].entry} /\ acked' = acked
              /\ worker[w].op # "delete_mailbox" =>
                    acked' = acked \cup {worker[w].entry} /\ gone' = gone
            BY <2>1, <2>2, <2>5, Advancing
        <3> QED
            BY <2>1, <2>2, <2>3, <2>5, <3>1 DEF Handler, Creates, Deletes, Adds
    <2> QED
        BY <2>4, <2>5
<1>7. CASE InstallCrontab(w)
    <2>1. At(w, "install", "crontab") /\ w \in Busy /\ Advance(w) /\ UNCHANGED index
        BY <1>7 DEF InstallCrontab, At
    <2>2. worker[w].op = "add_cron_job" /\ store = "cron" /\ worker[w].pc = 2
        BY <2>1, Steps
    <2>3. /\ Rests(w) /\ exposed' = exposed
          /\ acked' = acked \cup {worker[w].entry} /\ gone' = gone
        BY <2>1, <2>2, Advancing
    <2>4. Rewritten(worker[w].op, worker[w].entry, worker[w].lines) =
            worker[w].lines \cup {worker[w].entry}
        BY <2>2 DEF Rewritten
    <2>5. files'["crontab"] = worker[w].lines \cup {worker[w].entry}
        BY <1>0, <1>7, <2>2, <2>4 DEF InstallCrontab
    <2> QED
        BY <2>1, <2>2, <2>3, <2>5 DEF Handler, Schedules
<1>8. CASE ToolFails(w) \/ KillHung(w)
    BY <1>8 DEF ToolFails, KillHung, At
<1> QED
    BY <1>1, <1>2, <1>3, <1>4, <1>5, <1>6, <1>7, <1>8 DEF Step

\* A request that ends early takes its store with it if it has a file
\* truncated, or was to have it read again: a deletion, a record written but
\* not loaded.
Drops(w) ==
    /\ Rests(w) /\ UNCHANGED <<files, index, queued, acked, gone>>
    /\ \/ exposed' = exposed \cup Entries[store]
       \/ /\ exposed' = exposed /\ worker[w].op # "delete_mailbox"
          /\ ~(worker[w].op = "add_record" /\ worker[w].pc \in {4, 5})

LEMMA Ending ==
    ASSUME TypeInv, NEW w \in Busy, End(w)
    PROVE  Drops(w)
<1>1. Rests(w) /\ UNCHANGED <<files, index, queued, acked, gone>> /\ w \in Workers
    BY TypeParts DEF End, Rests, Others, Busy
<1>2. worker[w].op = "add_record" /\ worker[w].pc = 4 => \E f \in Files[store] : Holds(w, f)
    <2> SUFFICES ASSUME worker[w].op = "add_record", worker[w].pc = 4
                 PROVE  \E f \in Files[store] : Holds(w, f)
        OBVIOUS
    <2>1. store = "zone"
        BY Serves
    <2>2. Holds(w, "zonefile")
        BY <1>1, Holding
    <2> QED
        BY <2>1, <2>2, Stores
<1>3. /\ worker[w].op = "delete_mailbox" => Repairs(w)
      /\ worker[w].op = "add_record" /\ worker[w].pc = 5 => Repairs(w)
    <2>1. Len(AddRecord) = 5
        BY DEF AddRecord
    <2> QED
        BY <2>1, Zenon DEF Repairs
<1>4. \/ exposed' = exposed \cup Entries[store]
      \/ /\ exposed' = exposed /\ ~Repairs(w)
         /\ ~\E f \in Files[store] : Holds(w, f)
    BY Zenon DEF End, Abandoned
<1> QED
    BY <1>1, <1>2, <1>3, <1>4 DEF Drops

\* A request begins.
Starts(w, op, e) ==
    /\ w \notin Busy
    /\ worker'[w].op = op /\ worker'[w].entry = e /\ worker'[w].pc = 1 /\ Others(w)
    /\ exposed' = (IF Busy = {} THEN exposed \ {e} ELSE exposed) \cup Risked(op, e)
    /\ acked' = IF op = "delete_mailbox" THEN {a \in acked : <<a, e>> \notin StartsWith}
                                         ELSE acked \ (exposed \cap {e})
    /\ gone' = gone \ {e}
    /\ UNCHANGED <<files, index, queued>>

LEMMA Starting ==
    ASSUME TypeInv, NEW w \in Workers, NEW op, NEW e, Begin(w, op, e)
    PROVE  Starts(w, op, e)
<1>1. worker \in [Workers -> Request]
    BY TypeParts
<1> DEFINE r == [Idle EXCEPT !.op = op, !.entry = e, !.pc = 1]
<1>2. r.op = op /\ r.entry = e /\ r.pc = 1
    BY DEF Idle
<1>3. worker' = [worker EXCEPT ![w] = r]
    BY DEF Begin
<1> HIDE DEF r
<1>4. worker'[w] = r /\ Others(w)
    BY <1>1, <1>3 DEF Others
<1> QED
    BY <1>2, <1>4 DEF Begin, Starts

-----------------------------------------------------------------------------
(* What the safety properties rest on                                      *)

\* What must not be lost: acknowledged and at no risk; and what must not come
\* back: deleted and at no risk.
Safe == acked \ exposed
Gone == gone \ exposed

Doing(w, op) == worker[w].op = op

\* The mailboxes.  A creation that is under way brings nothing back, and has
\* written what its steps so far say.
Creating(w) ==
    Doing(w, "create_mailbox") =>
        /\ worker[w].entry \notin Gone
        /\ worker[w].pc \in {3, 4} => worker[w].entry \in files["passwd"] \cup exposed
        /\ worker[w].pc = 4 => worker[w].entry \in files["vmailbox"] \cup exposed

\* A deletion has read what must be kept and nothing that is gone, has nothing
\* in the file it has truncated that others do not risk, and its address is out
\* of the files it has rewritten.
Removing(w) ==
    Doing(w, "delete_mailbox") =>
        /\ \A e \in Safe : <<e, worker[w].entry>> \notin StartsWith
        /\ worker[w].pc \in {2, 3, 5, 6} =>
                Safe \subseteq worker[w].lines /\ Gone \cap worker[w].lines = {}
        /\ worker[w].pc = 3 => files["passwd"] \cap Mailboxes \subseteq exposed
        /\ worker[w].pc = 6 => files["vmailbox"] \cap Mailboxes \subseteq exposed
        /\ worker[w].pc \in {4, 5, 6, 7} => worker[w].entry \notin files["passwd"] \ exposed
        /\ worker[w].pc = 7 => worker[w].entry \notin files["vmailbox"] \ exposed

\* Deletions put at risk what is created, and all there is, beside them.
MailOverlap ==
    \A v, w \in Workers : v # w /\ Doing(v, "delete_mailbox") =>
        /\ Doing(w, "create_mailbox") => worker[w].entry \in exposed
        /\ Doing(w, "delete_mailbox") => Mailboxes \subseteq exposed

\* Some deletion has the file truncated.
MailCut(f) ==
    \E w \in Workers : Doing(w, "delete_mailbox") /\
        \/ worker[w].pc = 3 /\ f = "passwd"
        \/ worker[w].pc = 6 /\ f = "vmailbox"

MailKept ==
    /\ Safe \subseteq files["passwd"] \/ MailCut("passwd")
    /\ Safe \subseteq files["vmailbox"] \/ MailCut("vmailbox")
    /\ Safe \subseteq index \/ \E w \in Workers : Doing(w, "delete_mailbox")

MailGone ==
    Gone \cap index = {} /\ Gone \cap files["passwd"] = {} /\ Gone \cap files["vmailbox"] = {}

MailInv ==
    /\ \A w \in Workers : Creating(w) /\ Removing(w)
    /\ MailOverlap /\ MailKept /\ MailGone

\* The mailboxes' variables have their types.
MailTypes ==
    /\ store = "mail" /\ acked \subseteq Mailboxes /\ gone \subseteq Mailboxes
    /\ \A w \in Workers : worker[w].op \in {"none", "create_mailbox", "delete_mailbox"}
    /\ \A w \in Workers : worker[w].op # "none" => worker[w].entry \in Mailboxes

LEMMA MailTyped == TypeInv /\ store = "mail" => MailTypes
<1> SUFFICES ASSUME TypeInv, store = "mail" PROVE MailTypes
    OBVIOUS
<1>1. Plain /\ \A w \in Workers : WorkerOK(w)
    BY TypeParts
<1>2. acked \subseteq Mailboxes /\ gone \subseteq Mailboxes
    BY <1>1, Stores DEF Plain
<1>3. \A w \in Workers : worker[w].op # "none" =>
            /\ worker[w].op \in {"create_mailbox", "delete_mailbox"}
            /\ worker[w].entry \in Mailboxes
    BY <1>1, Stores DEF WorkerOK
<1> QED
    BY <1>2, <1>3 DEF MailTypes

\* When all mailboxes are at risk there is nothing left to promise.
LEMMA MailLost ==
    ASSUME MailTypes', (Mailboxes \subseteq exposed)'
    PROVE  MailInv'
<1>1. Safe' = {} /\ Gone' = {}
    BY DEF MailTypes, Safe, Gone
<1> QED
    BY <1>1 DEF MailInv, MailTypes, Creating, Removing, MailOverlap, MailKept, MailGone, Doing

LEMMA MailOverlapKept ==
    ASSUME MailOverlap, NEW w \in Workers, Others(w), exposed \subseteq exposed',
           worker'[w].op = "none" \/ (worker'[w].op = worker[w].op /\ worker'[w].entry = worker[w].entry)
    PROVE  MailOverlap'
BY DEF MailOverlap, Others, Doing

\* Only a deletion closes a file it has truncated.
LEMMA MailCutKept ==
    ASSUME NEW w \in Workers, ~Doing(w, "delete_mailbox"), Others(w), NEW f, MailCut(f)
    PROVE  MailCut(f)'
<1>1. PICK v \in Workers : Doing(v, "delete_mailbox") /\
            ((worker[v].pc = 3 /\ f = "passwd") \/ (worker[v].pc = 6 /\ f = "vmailbox"))
    BY DEF MailCut
<1>2. v # w
    BY <1>1
<1>3. worker'[v] = worker[v]
    BY <1>2 DEF Others
<1> QED
    BY <1>1, <1>3 DEF MailCut, Doing

\* A creation's step: what it adds is at risk if a deletion is under way.
LEMMA MailCreates ==
    ASSUME MailTypes, MailTypes', MailInv, NEW w \in Workers,
           Doing(w, "create_mailbox"), Creates(w)
    PROVE  MailInv'
<1> DEFINE e == worker[w].entry
<1>1. /\ \A v \in Workers : Doing(v, "delete_mailbox") => v # w /\ e \in exposed
      /\ Creating(w) /\ e \in Mailboxes
      /\ \A v \in Workers : Creating(v) /\ Removing(v)
      /\ MailOverlap /\ MailKept /\ MailGone
    BY DEF MailInv, MailOverlap, MailTypes, Doing
<1>2. Others(w) /\ exposed' = exposed
    BY DEF Creates, Goes, Rests, history
<1>3. MailOverlap'
    <2>1. worker'[w].op = "none" \/ (worker'[w].op = worker[w].op /\ worker'[w].entry = worker[w].entry)
        BY DEF Creates, Goes, Rests, Idle
    <2> QED
        BY <1>1, <1>2, <2>1, MailOverlapKept
<1>4. ASSUME worker[w].pc # 4 PROVE MailInv'
    <2>1. /\ index' = index /\ Safe' = Safe /\ Gone' = Gone
          /\ worker'[w].op = "create_mailbox" /\ worker'[w].entry = e
          /\ files["passwd"] \subseteq files'["passwd"]
          /\ files'["passwd"] \subseteq files["passwd"] \cup {e}
          /\ files["vmailbox"] \subseteq files'["vmailbox"]
          /\ files'["vmailbox"] \subseteq files["vmailbox"] \cup {e}
        BY <1>4 DEF Creates, Goes, history, Safe, Gone, Doing
    <2>2. /\ worker'[w].pc \in {3, 4} => e \in files'["passwd"] \cup exposed
          /\ worker'[w].pc = 4 => e \in files'["vmailbox"] \cup exposed
        BY <1>1, <1>4 DEF Creates, Creating, Goes, Doing
    <2>3. ASSUME NEW v \in Workers PROVE Creating(v)'
        <3>1. CASE v = w
            BY <1>1, <1>2, <2>1, <2>2, <3>1 DEF Creating, Doing
        <3>2. CASE v # w
            BY <1>1, <1>2, <2>1, <3>2 DEF Creating, Doing, Others
        <3> QED
            BY <3>1, <3>2
    <2>4. ASSUME NEW v \in Workers PROVE Removing(v)'
        <3>1. CASE v = w
            BY <2>1, <3>1 DEF Removing, Doing
        <3>2. CASE v # w
            <4>1. worker'[v] = worker[v] /\ Removing(v)
                BY <1>1, <1>2, <3>2 DEF Others
            <4> SUFFICES ASSUME Doing(v, "delete_mailbox") PROVE Removing(v)'
                BY <4>1 DEF Removing, Doing
            <4>2. e \in exposed
                BY <1>1
            <4> QED
                BY <1>2, <2>1, <4>1, <4>2 DEF Removing, Doing
        <3> QED
            BY <3>1, <3>2
    <2>5. MailKept'
        <3>1. \A f : MailCut(f) => MailCut(f)'
            BY <1>1, <1>2, MailCutKept
        <3>2. (\E v \in Workers : Doing(v, "delete_mailbox")) =>
                (\E v \in Workers : Doing(v, "delete_mailbox")')
            BY <1>1, <1>2 DEF Doing, Others
        <3> QED
            BY <1>1, <2>1, <3>1, <3>2 DEF MailKept
    <2>6. MailGone'
        BY <1>1, <2>1 DEF MailGone, Creating
    <2> QED
        BY <1>3, <2>3, <2>4, <2>5, <2>6 DEF MailInv
<1>5. ASSUME worker[w].pc = 4 PROVE MailInv'
    <2>1. /\ Rests(w) /\ files' = files /\ index' = files["vmailbox"]
          /\ acked' = acked \cup {e} /\ gone' = gone /\ worker'[w].op = "none"
        BY <1>5 DEF Creates, Rests, Idle
    <2>2. Gone' = Gone /\ Safe' \subseteq Safe \cup {e} /\ (e \in exposed => Safe' = Safe)
        BY <1>2, <2>1 DEF Safe, Gone
    <2>3. e \in files["passwd"] \cup exposed /\ e \in files["vmailbox"] \cup exposed
        BY <1>1, <1>5 DEF Creating
    <2>4. ASSUME NEW v \in Workers PROVE Creating(v)'
        <3>1. CASE v = w
            BY <2>1, <3>1 DEF Creating, Doing
        <3>2. CASE v # w
            BY <1>1, <1>2, <2>1, <2>2, <3>2 DEF Creating, Doing, Others
        <3> QED
            BY <3>1, <3>2
    <2>5. ASSUME NEW v \in Workers PROVE Removing(v)'
        <3>1. CASE v = w
            BY <2>1, <3>1 DEF Removing, Doing
        <3>2. CASE v # w
            <4>1. worker'[v] = worker[v] /\ Removing(v)
                BY <1>1, <1>2, <3>2 DEF Others
            <4> SUFFICES ASSUME Doing(v, "delete_mailbox") PROVE Removing(v)'
                BY <4>1 DEF Removing, Doing
            <4>2. Safe' = Safe
                BY <1>1, <2>2
            <4> QED
                BY <1>2, <2>1, <2>2, <4>1, <4>2 DEF Removing, Doing
        <3> QED
            BY <3>1, <3>2
    <2>6. MailKept'
        <3>1. \A f : MailCut(f) => MailCut(f)'
            BY <1>1, <1>2, MailCutKept
        <3>2. (\E v \in Workers : Doing(v, "delete_mailbox")) =>
                (\E v \in Workers : Doing(v, "delete_mailbox")')
            BY <1>1, <1>2 DEF Doing, Others
        <3>3. e \notin Safe' \/ (e \in files["passwd"] /\ e \in files["vmailbox"])
            BY <1>2, <2>3 DEF Safe
        <3>4. Safe' \subseteq files["passwd"] \/ MailCut("passwd")
            BY <1>1, <2>2, <3>3 DEF MailKept
        <3>5. Safe' \subseteq files["vmailbox"] \/ MailCut("vmailbox")
            BY <1>1, <2>2, <3>3 DEF MailKept
        <3>6. MailCut("vmailbox") => \E v \in Workers : Doing(v, "delete_mailbox")
            BY DEF MailCut
        <3> QED
            BY <2>1, <3>1, <3>2, <3>4, <3>5, <3>6 DEF MailKept
    <2>7. MailGone'
        BY <1>1, <2>1, <2>2 DEF MailGone
    <2> QED
        BY <1>3, <2>4, <2>5, <2>6, <2>7 DEF MailInv
<1> QED
    BY <1>4, <1>5

\* A deletion's step, when it is the only one under way.
LEMMA MailDeletes ==
    ASSUME MailTypes, MailTypes', MailInv, NEW w \in Workers,
           Doing(w, "delete_mailbox"), Deletes(w)
    PROVE  MailInv'
<1> DEFINE e == worker[w].entry
           pw == files["passwd"]
           vm == files["vmailbox"]
<1>1. /\ e \in Mailboxes /\ Removing(w) /\ \A v \in Workers : Creating(v)
      /\ MailOverlap /\ MailKept /\ MailGone /\ acked \subseteq Mailboxes /\ gone \subseteq Mailboxes
    BY DEF MailInv, MailTypes, Doing
<1>2. Others(w) /\ exposed' = exposed /\ acked' = acked
    BY DEF Deletes, Goes, Rests, history
<1>3. CASE \E v \in Workers : v # w /\ Doing(v, "delete_mailbox")
    <2>1. Mailboxes \subseteq exposed'
        BY <1>1, <1>2, <1>3 DEF MailOverlap
    <2> QED
        BY <2>1, MailLost
<1>4. CASE \A v \in Workers : Doing(v, "delete_mailbox") => v = w
    <2>1. MailOverlap'
        <3>1. worker'[w].op = "none" \/ (worker'[w].op = worker[w].op /\ worker'[w].entry = worker[w].entry)
            BY DEF Deletes, Goes, Rests, Idle
        <3> QED
            BY <1>1, <1>2, <3>1, MailOverlapKept
    <2>2. ASSUME NEW v \in Workers, v # w PROVE Creating(v)' /\ Removing(v)'
        <3>1. worker'[v] = worker[v] /\ ~Doing(v, "delete_mailbox")
            BY <1>2, <1>4, <2>2 DEF Others
        <3>2. Doing(v, "create_mailbox") => worker[v].entry \in exposed'
            BY <1>1, <1>2, <2>2 DEF MailOverlap
        <3> QED
            BY <3>1, <3>2 DEF Creating, Removing, Doing, Gone
    <2>3. /\ worker[w].pc # 3 => Safe \subseteq pw
          /\ worker[w].pc # 6 => Safe \subseteq vm
          /\ Safe \subseteq Mailboxes /\ Safe' = Safe /\ Safe \cap exposed = {}
        BY <1>1, <1>2, <1>4 DEF MailKept, MailCut, Safe
    <2>4. Gone \cap exposed = {} /\ Gone \cap index = {} /\ Gone \cap pw = {} /\ Gone \cap vm = {}
          /\ Gone \subseteq Mailboxes
        BY <1>1 DEF MailGone, Gone
    <2>5. Removing(w)' /\ MailKept' /\ MailGone' => MailInv'
        <3>1. Creating(w)'
            BY DEF Creating, Doing, Deletes, Goes, Rests, Idle
        <3> QED
            BY <2>1, <2>2, <3>1 DEF MailInv
    <2>6. /\ (worker'[w].op = "delete_mailbox" /\ worker'[w].pc = 3) => MailCut("passwd")'
          /\ (worker'[w].op = "delete_mailbox" /\ worker'[w].pc = 6) => MailCut("vmailbox")'
          /\ worker'[w].op = "delete_mailbox" => \E v \in Workers : Doing(v, "delete_mailbox")'
        BY DEF MailCut, Doing
    <2>7. /\ \A a \in Safe : <<a, e>> \notin StartsWith
          /\ worker[w].pc \in {2, 3, 5, 6} =>
                Safe \subseteq worker[w].lines /\ Gone \cap worker[w].lines = {}
          /\ worker[w].pc = 3 => pw \cap Mailboxes \subseteq exposed
          /\ worker[w].pc = 6 => vm \cap Mailboxes \subseteq exposed
          /\ worker[w].pc \in {4, 5, 6, 7} => e \notin pw \ exposed
          /\ worker[w].pc = 7 => e \notin vm \ exposed
        BY <1>1 DEF Removing
    <2> DEFINE o2 == worker'[w].op
               e2 == worker'[w].entry
               k2 == worker'[w].pc
               l2 == worker'[w].lines
    <2>8. ASSUME o2 = "delete_mailbox", e2 = e, gone' = gone, index' = index,
                 \* what the step establishes
                 k2 \in {2, 3, 5, 6} => Safe \subseteq l2 /\ Gone \cap l2 = {},
                 k2 = 3 => files'["passwd"] \cap Mailboxes \subseteq exposed,
                 k2 = 6 => files'["vmailbox"] \cap Mailboxes \subseteq exposed,
                 k2 \in {4, 5, 6, 7} => e \notin files'["passwd"] \ exposed,
                 k2 = 7 => e \notin files'["vmailbox"] \ exposed,
                 k2 # 3 => Safe \subseteq files'["passwd"],
                 k2 # 6 => Safe \subseteq files'["vmailbox"],
                 Gone \cap files'["passwd"] = {}, Gone \cap files'["vmailbox"] = {}
          PROVE  MailInv'
        <3>1. Gone' = Gone
            BY <1>2, <2>8 DEF Gone
        <3>2. Removing(w)'
            BY <1>2, <2>3, <2>7, <2>8, <3>1 DEF Removing
        <3>3. MailKept'
            BY <2>3, <2>6, <2>8 DEF MailKept
        <3>4. MailGone'
            BY <2>4, <2>8, <3>1 DEF MailGone
        <3> QED
            BY <2>5, <3>2, <3>3, <3>4
    <2>9. CASE worker[w].pc = 1
        <3>1. Goes(w, 2, pw) /\ files' = files /\ index' = index /\ gone' = gone
            BY <2>9 DEF Deletes, history
        <3> QED
            BY <2>3, <2>4, <2>8, <2>9, <3>1 DEF Goes, Doing
    <2>10. CASE worker[w].pc = 2
        <3>1. /\ Goes(w, 3, worker[w].lines) /\ index' = index /\ gone' = gone
              /\ files'["passwd"] = {} /\ files'["vmailbox"] = vm
            BY <2>10 DEF Deletes, history
        <3> QED
            BY <2>3, <2>4, <2>7, <2>8, <2>10, <3>1 DEF Goes, Doing
    <2>11. CASE worker[w].pc = 3
        <3>1. /\ Goes(w, 4, worker[w].lines) /\ index' = index /\ gone' = gone
              /\ Rewrites(w, "passwd", "vmailbox")
            BY <2>11 DEF Deletes, history
        <3>2. PICK rest \in SUBSET pw : files'["passwd"] =
                    {m \in worker[w].lines : <<m, e>> \notin StartsWith} \cup rest
            BY <3>1 DEF Rewrites
        <3>3. files'["vmailbox"] = vm /\ o2 = "delete_mailbox" /\ e2 = e /\ k2 = 4
            BY <3>1 DEF Rewrites, Goes, Doing
        <3>4. Safe \subseteq files'["passwd"] /\ Gone \cap files'["passwd"] = {}
            BY <2>4, <2>7, <2>11, <3>2
        <3>5. e \notin files'["passwd"] \ exposed
            BY <1>1, <2>7, <2>11, <3>2, StartsWithAssumption
        <3> QED
            BY <2>3, <2>4, <2>8, <2>11, <3>1, <3>3, <3>4, <3>5
    <2>12. CASE worker[w].pc = 4
        <3>1. Goes(w, 5, vm) /\ files' = files /\ index' = index /\ gone' = gone
            BY <2>12 DEF Deletes, history
        <3> QED
            BY <2>3, <2>4, <2>7, <2>8, <2>12, <3>1 DEF Goes, Doing
    <2>13. CASE worker[w].pc = 5
        <3>1. /\ Goes(w, 6, worker[w].lines) /\ index' = index /\ gone' = gone
              /\ files'["passwd"] = pw /\ files'["vmailbox"] = {}
            BY <2>13 DEF Deletes, history
        <3> QED
            BY <2>3, <2>4, <2>7, <2>8, <2>13, <3>1 DEF Goes, Doing
    <2>14. CASE worker[w].pc = 6
        <3>1. /\ Goes(w, 7, worker[w].lines) /\ index' = index /\ gone' = gone
              /\ Rewrites(w, "vmailbox", "passwd")
            BY <2>14 DEF Deletes, history
        <3>2. PICK rest \in SUBSET vm : files'["vmailbox"] =
                    {m \in worker[w].lines : <<m, e>> \notin StartsWith} \cup rest
            BY <3>1 DEF Rewrites
        <3>3. files'["passwd"] = pw /\ o2 = "delete_mailbox" /\ e2 = e /\ k2 = 7
            BY <3>1 DEF Rewrites, Goes, Doing
        <3>4. Safe \subseteq files'["vmailbox"] /\ Gone \cap files'["vmailbox"] = {}
            BY <2>4, <2>7, <2>14, <3>2
        <3>5. e \notin files'["vmailbox"] \ exposed
            BY <1>1, <2>7, <2>14, <3>2, StartsWithAssumption
        <3> QED
            BY <2>3, <2>4, <2>7, <2>8, <2>14, <3>1, <3>3, <3>4, <3>5
    <2>15. CASE worker[w].pc = 7
        <3>1. /\ worker'[w].op = "none" /\ files' = files /\ index' = vm /\ gone' = gone \cup {e}
            BY <2>15 DEF Deletes, Rests, Idle
        <3>2. Gone' \subseteq Gone \cup {e} /\ (e \in exposed => Gone' = Gone)
            BY <1>2, <3>1 DEF Gone
        <3>3. Removing(w)'
            BY <3>1 DEF Removing, Doing
        <3>4. MailKept'
            BY <2>3, <2>15, <3>1 DEF MailKept
        <3>5. MailGone'
            BY <2>4, <2>7, <2>15, <3>1, <3>2 DEF MailGone
        <3> QED
            BY <2>5, <3>3, <3>4, <3>5
    <2> QED
        BY <2>9, <2>10, <2>11, <2>12, <2>13, <2>14, <2>15 DEF Deletes
<1> QED
    BY <1>3, <1>4

\* A request that ends early.
LEMMA MailDrops ==
    ASSUME MailTypes, MailTypes', MailInv, NEW w \in Workers, Drops(w)
    PROVE  MailInv'
<1>1. CASE Mailboxes \subseteq exposed'
    BY <1>1, MailLost
<1>2. CASE ~(Mailboxes \subseteq exposed')
    <2>1. /\ exposed' = exposed /\ ~Doing(w, "delete_mailbox") /\ Others(w)
          /\ worker'[w].op = "none" /\ UNCHANGED <<files, index, acked, gone>>
        BY <1>2, Stores DEF Drops, MailTypes, Doing, Rests, Idle
    <2>2. Safe' = Safe /\ Gone' = Gone
        BY <2>1 DEF Safe, Gone
    <2>3. MailOverlap'
        BY <2>1, MailOverlapKept DEF MailInv
    <2>4. ASSUME NEW v \in Workers PROVE Creating(v)' /\ Removing(v)'
        <3>1. CASE v = w
            BY <2>1, <3>1 DEF Creating, Removing, Doing
        <3>2. CASE v # w
            BY <2>1, <2>2, <3>2 DEF MailInv, Creating, Removing, Doing, Others
        <3> QED
            BY <3>1, <3>2
    <2>5. MailKept'
        <3>1. \A f : MailCut(f) => MailCut(f)'
            BY <2>1, MailCutKept
        <3>2. (\E v \in Workers : Doing(v, "delete_mailbox")) =>
                (\E v \in Workers : Doing(v, "delete_mailbox")')
            BY <2>1 DEF Doing, Others
        <3> QED
            BY <2>1, <2>2, <3>1, <3>2 DEF MailInv, MailKept
    <2>6. MailGone'
        BY <2>1, <2>2 DEF MailInv, MailGone
    <2> QED
        BY <2>3, <2>4, <2>5, <2>6 DEF MailInv
<1> QED
    BY <1>1, <1>2

\* A tool that hangs stops its request where it is.
Stands ==
    /\ \A v \in Workers :
          /\ worker'[v].op = worker[v].op /\ worker'[v].entry = worker[v].entry
          /\ worker'[v].pc = worker[v].pc /\ worker'[v].lines = worker[v].lines
    /\ UNCHANGED <<files, index, queued, acked, gone, exposed>>

LEMMA Hanging ==
    ASSUME TypeInv, NEW w \in Workers, ToolHangs(w)
    PROVE  Stands
<1>1. worker \in [Workers -> Request] /\ worker' = [worker EXCEPT ![w].hung = TRUE]
    BY TypeParts DEF ToolHangs
<1> QED
    BY <1>1 DEF ToolHangs, Stands, history, Request

LEMMA MailStands ==
    ASSUME MailInv, Stands
    PROVE  MailInv'
<1>1. Safe' = Safe /\ Gone' = Gone
    BY DEF Stands, Safe, Gone
<1>2. ASSUME NEW v \in Workers PROVE Creating(v)' /\ Removing(v)'
    BY <1>1 DEF MailInv, Stands, Creating, Removing, Doing
<1>3. MailOverlap'
    BY DEF MailInv, Stands, MailOverlap, Doing
<1>4. MailKept'
    <2>1. ASSUME NEW f, MailCut(f) PROVE MailCut(f)'
        BY <2>1 DEF MailCut, Stands, Doing
    <2>2. (\E v \in Workers : Doing(v, "delete_mailbox")) =>
            (\E v \in Workers : Doing(v, "delete_mailbox")')
        BY DEF Doing, Stands
    <2> QED
        BY <1>1, <2>1, <2>2 DEF MailInv, MailKept, Stands
<1>5. MailGone'
    BY <1>1 DEF MailInv, MailGone, Stands
<1> QED
    BY <1>2, <1>3, <1>4, <1>5 DEF MailInv

\* Risks are forgotten only when nothing is under way.
LEMMA Fresh ==
    ASSUME NEW w \in Workers, NEW op, NEW e, Starts(w, op, e)
    PROVE  /\ \A v \in Workers \ {w} : worker'[v] = worker[v]
           /\ Busy # {} => exposed \subseteq exposed' /\ Risked(op, e) \subseteq exposed'
           /\ Busy = {} => \A v \in Workers : worker[v].op = "none"
           /\ exposed \subseteq exposed' \cup {e}
           /\ op # "delete_mailbox" => Safe' \subseteq Safe
           /\ <<e, e>> \in StartsWith => Safe' \subseteq Safe
           /\ e \notin Gone' /\ Gone' \subseteq Gone
BY DEF Starts, Others, Busy, Safe, Gone

LEMMA MailStarts ==
    ASSUME MailTypes, MailTypes', MailInv, NEW w \in Workers,
           NEW op \in {"create_mailbox", "delete_mailbox"}, NEW e \in Mailboxes,
           Starts(w, op, e)
    PROVE  MailInv'
<1>1. /\ Safe' \subseteq Safe /\ Gone' \subseteq Gone /\ e \notin Gone'
      /\ Busy # {} => exposed \subseteq exposed' /\ Risked(op, e) \subseteq exposed'
      /\ \A v \in Workers \ {w} : worker'[v] = worker[v]
      /\ worker'[w].op = op /\ worker'[w].entry = e /\ worker'[w].pc = 1
      /\ UNCHANGED <<files, index>> /\ worker[w].op = "none"
    <2>1. <<e, e>> \in StartsWith
        BY StartsWithAssumption
    <2>2. /\ Safe' \subseteq Safe /\ Gone' \subseteq Gone /\ e \notin Gone'
          /\ Busy # {} => exposed \subseteq exposed' /\ Risked(op, e) \subseteq exposed'
          /\ \A v \in Workers \ {w} : worker'[v] = worker[v]
        BY <2>1, Fresh, Zenon
    <2>3. /\ worker'[w].op = op /\ worker'[w].entry = e /\ worker'[w].pc = 1
          /\ UNCHANGED <<files, index>> /\ worker[w].op = "none"
        BY DEF Starts, Busy
    <2> QED
        BY <2>2, <2>3
<1>2. ASSUME NEW v \in Workers, worker[v].op # "none"
      PROVE  v # w /\ worker'[v] = worker[v] /\ exposed \subseteq exposed'
    <2>1. Busy # {} /\ v # w
        BY <1>1, <1>2 DEF Busy
    <2> QED
        BY <1>1, <2>1
<1>3. op = "delete_mailbox" => \A a \in Safe' : <<a, e>> \notin StartsWith
    BY DEF Starts, Safe
<1>4. ASSUME NEW v \in Workers, v # w PROVE Creating(v)' /\ Removing(v)'
    <2>1. CASE worker[v].op = "none"
        BY <1>1, <1>4, <2>1 DEF Creating, Removing, Doing
    <2>2. CASE worker[v].op # "none"
        <3>1. worker'[v] = worker[v] /\ exposed \subseteq exposed' /\ Creating(v) /\ Removing(v)
            BY <1>2, <2>2 DEF MailInv
        <3>2. Creating(v)'
            BY <1>1, <3>1 DEF Creating, Doing
        <3>3. Removing(v)'
            BY <1>1, <3>1 DEF Removing, Doing
        <3> QED
            BY <3>2, <3>3
    <2> QED
        BY <2>1, <2>2
<1>5. Creating(w)' /\ Removing(w)'
    BY <1>1, <1>3 DEF Creating, Removing, Doing
<1>6. MailOverlap'
    <2>1. \A v \in Workers : Doing(v, "delete_mailbox") =>
            /\ Deleting /\ Busy # {}
            /\ op = "create_mailbox" => e \in exposed'
            /\ op = "delete_mailbox" => Mailboxes \subseteq exposed'
        <3> SUFFICES ASSUME NEW v \in Workers, Doing(v, "delete_mailbox")
                     PROVE  /\ Deleting /\ Busy # {}
                            /\ op = "create_mailbox" => e \in exposed'
                            /\ op = "delete_mailbox" => Mailboxes \subseteq exposed'
            OBVIOUS
        <3>1. v \in Busy /\ worker[v].op = "delete_mailbox"
            BY DEF Busy, Doing
        <3>2. Deleting /\ Busy # {}
            BY <3>1 DEF Deleting, Serving
        <3>3. Risked(op, e) \subseteq exposed'
            BY <1>1, <3>2
        <3>4. /\ op = "create_mailbox" => Risked(op, e) = {e}
              /\ op = "delete_mailbox" => Risked(op, e) = Mailboxes
            BY <3>2 DEF Risked
        <3> QED
            BY <3>2, <3>3, <3>4
    <2>2. \A v \in Workers : Doing(v, "create_mailbox") /\ op = "delete_mailbox" =>
            worker[v].entry \in exposed'
        <3> SUFFICES ASSUME NEW v \in Workers, Doing(v, "create_mailbox"), op = "delete_mailbox"
                     PROVE  worker[v].entry \in exposed'
            OBVIOUS
        <3>1. worker[v].entry \in Serving("create_mailbox") /\ Busy # {}
            BY DEF Serving, Busy, Doing
        <3>2. worker[v].entry \in Mailboxes
            BY DEF MailTypes, Doing
        <3>3. Risked(op, e) = IF Deleting THEN Mailboxes ELSE Serving("create_mailbox")
            BY DEF Risked
        <3> QED
            BY <1>1, <3>1, <3>2, <3>3
    <2>3. ASSUME NEW v \in Workers, NEW u \in Workers, v # u, Doing(v, "delete_mailbox")'
          PROVE  /\ Doing(u, "create_mailbox")' => worker'[u].entry \in exposed'
                 /\ Doing(u, "delete_mailbox")' => Mailboxes \subseteq exposed'
        <3>1. CASE v = w
            BY <1>1, <2>1, <2>2, <2>3, <3>1 DEF Doing
        <3>2. CASE u = w
            BY <1>1, <2>1, <2>2, <2>3, <3>2 DEF Doing
        <3>3. CASE v # w /\ u # w
            <4>1. Doing(v, "delete_mailbox") /\ exposed \subseteq exposed' /\ worker'[u] = worker[u]
                BY <1>1, <1>2, <2>3, <3>3 DEF Doing
            <4> QED
                BY <2>3, <4>1 DEF MailInv, MailOverlap, Doing
        <3> QED
            BY <3>1, <3>2, <3>3
    <2> QED
        BY <2>3 DEF MailOverlap
<1>7. MailKept'
    <2>1. \A f : MailCut(f) => MailCut(f)'
        BY <1>1, MailCutKept DEF Doing, Others
    <2>2. (\E v \in Workers : Doing(v, "delete_mailbox")) =>
            (\E v \in Workers : Doing(v, "delete_mailbox")')
        BY <1>2 DEF Doing
    <2> QED
        BY <1>1, <2>1, <2>2 DEF MailInv, MailKept
<1>8. MailGone'
    BY <1>1 DEF MailInv, MailGone
<1> QED
    BY <1>4, <1>5, <1>6, <1>7, <1>8 DEF MailInv

-----------------------------------------------------------------------------
(* The crontab                                                             *)

\* A request that adds a job has read what must be kept.
Scheduling(w) ==
    Doing(w, "add_cron_job") /\ worker[w].pc = 2 => Safe \subseteq worker[w].lines

\* Two of them put both of their jobs at risk.
CronOverlap ==
    \A v, w \in Workers : v # w /\ Doing(v, "add_cron_job") /\ Doing(w, "add_cron_job") =>
        worker[w].entry \in exposed

CronInv ==
    /\ \A w \in Workers : Scheduling(w)
    /\ CronOverlap /\ Safe \subseteq files["crontab"] /\ gone = {}

CronTypes ==
    /\ store = "cron" /\ acked \subseteq Jobs
    /\ \A w \in Workers : worker[w].op \in {"none", "add_cron_job"}
    /\ \A w \in Workers : worker[w].op # "none" => worker[w].entry \in Jobs

LEMMA CronTyped == TypeInv /\ store = "cron" => CronTypes
<1> SUFFICES ASSUME TypeInv, store = "cron" PROVE CronTypes
    OBVIOUS
<1>1. Plain /\ \A w \in Workers : WorkerOK(w)
    BY TypeParts
<1>2. acked \subseteq Jobs
    BY <1>1, Stores DEF Plain
<1>3. \A w \in Workers : worker[w].op # "none" =>
            worker[w].op = "add_cron_job" /\ worker[w].entry \in Jobs
    BY <1>1, Stores DEF WorkerOK
<1> QED
    BY <1>2, <1>3 DEF CronTypes

LEMMA CronLost ==
    ASSUME CronTypes', (Jobs \subseteq exposed)', (gone = {})'
    PROVE  CronInv'
<1>1. Safe' = {}
    BY DEF CronTypes, Safe
<1> QED
    BY <1>1 DEF CronInv, CronTypes, Scheduling, CronOverlap, Doing

LEMMA CronOverlapKept ==
    ASSUME CronOverlap, NEW w \in Workers, Others(w), exposed \subseteq exposed',
           worker'[w].op = "none" \/ (worker'[w].op = worker[w].op /\ worker'[w].entry = worker[w].entry)
    PROVE  CronOverlap'
BY DEF CronOverlap, Others, Doing

LEMMA CronSchedules ==
    ASSUME CronTypes, CronTypes', CronInv, NEW w \in Workers,
           Doing(w, "add_cron_job"), Schedules(w)
    PROVE  CronInv'
<1> DEFINE e == worker[w].entry
<1>1. /\ Others(w) /\ gone' = {} /\ exposed \subseteq exposed'
      /\ worker'[w].op = "none" \/ (worker'[w].op = worker[w].op /\ worker'[w].entry = worker[w].entry)
    BY DEF Schedules, Goes, Rests, Idle, CronInv
<1>2. CronOverlap'
    BY <1>1, CronOverlapKept DEF CronInv
<1>3. CASE worker[w].pc = 1 /\ Goes(w, 2, files["crontab"]) /\ exposed' = exposed
    <2>1. files' = files /\ Safe' = Safe
        BY <1>3 DEF Schedules, Safe
    <2>2. ASSUME NEW v \in Workers PROVE Scheduling(v)'
        <3>1. CASE v = w
            BY <1>3, <2>1, <3>1 DEF Scheduling, Goes, CronInv
        <3>2. CASE v # w
            BY <1>1, <2>1, <3>2 DEF Scheduling, Others, CronInv, Doing
        <3> QED
            BY <3>1, <3>2
    <2> QED
        BY <1>1, <1>2, <2>1, <2>2 DEF CronInv
<1>4. CASE worker[w].pc = 1 /\ exposed' = exposed \cup Jobs
    BY <1>1, <1>4, CronLost
<1>5. CASE worker[w].pc = 2
    <2>1. /\ worker'[w].op = "none" /\ exposed' = exposed /\ acked' = acked \cup {e}
          /\ files'["crontab"] = worker[w].lines \cup {e}
        BY <1>5 DEF Schedules, Rests, Idle
    <2>2. Safe' \subseteq Safe \cup {e} /\ (e \in exposed => Safe' = Safe)
        BY <2>1 DEF Safe
    <2>3. Safe \subseteq worker[w].lines
        BY <1>5 DEF CronInv, Scheduling
    <2>4. ASSUME NEW v \in Workers PROVE Scheduling(v)'
        <3>1. CASE v = w
            BY <2>1, <3>1 DEF Scheduling, Doing
        <3>2. CASE v # w
            <4>1. worker'[v] = worker[v] /\ Scheduling(v)
                BY <1>1, <3>2 DEF Others, CronInv
            <4>2. Doing(v, "add_cron_job") => e \in exposed
                BY <3>2 DEF CronInv, CronOverlap
            <4> QED
                BY <2>2, <4>1, <4>2 DEF Scheduling, Doing
        <3> QED
            BY <3>1, <3>2
    <2> QED
        BY <1>1, <1>2, <2>1, <2>2, <2>3, <2>4 DEF CronInv
<1> QED
    BY <1>3, <1>4, <1>5 DEF Schedules

LEMMA CronDrops ==
    ASSUME CronTypes, CronTypes', CronInv, NEW w \in Workers, Drops(w)
    PROVE  CronInv'
<1>1. /\ Others(w) /\ worker'[w].op = "none" /\ UNCHANGED <<files, acked, gone>>
      /\ exposed \subseteq exposed'
    BY DEF Drops, Rests, Idle
<1>2. Safe' \subseteq Safe
    BY <1>1 DEF Safe
<1>3. CronOverlap'
    BY <1>1, CronOverlapKept DEF CronInv
<1>4. ASSUME NEW v \in Workers PROVE Scheduling(v)'
    BY <1>1, <1>2 DEF CronInv, Scheduling, Doing, Others
<1> QED
    BY <1>1, <1>2, <1>3, <1>4 DEF CronInv

LEMMA CronStands ==
    ASSUME CronInv, Stands
    PROVE  CronInv'
<1>1. Safe' = Safe
    BY DEF Stands, Safe
<1>2. ASSUME NEW v \in Workers PROVE Scheduling(v)'
    BY <1>1 DEF CronInv, Stands, Scheduling, Doing
<1>3. CronOverlap'
    BY DEF CronInv, Stands, CronOverlap, Doing
<1> QED
    BY <1>1, <1>2, <1>3 DEF CronInv, Stands

LEMMA CronStarts ==
    ASSUME CronTypes, CronTypes', CronInv, NEW w \in Workers, NEW e \in Jobs,
           Starts(w, "add_cron_job", e)
    PROVE  CronInv'
<1>1. /\ Safe' \subseteq Safe
      /\ Busy # {} => exposed \subseteq exposed' /\ Risked("add_cron_job", e) \subseteq exposed'
      /\ \A v \in Workers \ {w} : worker'[v] = worker[v]
    BY Fresh, Zenon
<1>2. /\ worker'[w].op = "add_cron_job" /\ worker'[w].entry = e /\ worker'[w].pc = 1
      /\ UNCHANGED files /\ worker[w].op = "none" /\ gone' = {}
    BY DEF Starts, Busy, CronInv
<1>3. ASSUME NEW v \in Workers PROVE Scheduling(v)'
    BY <1>1, <1>2 DEF CronInv, Scheduling, Doing
<1>4. ASSUME NEW v \in Workers, Doing(v, "add_cron_job")
      PROVE  exposed \subseteq exposed' /\ e \in exposed' /\ worker[v].entry \in exposed'
    <2>1. v \in Busy /\ worker[v].entry \in Serving("add_cron_job")
        BY <1>4 DEF Busy, Doing, Serving
    <2>2. Risked("add_cron_job", e) = {e} \cup Serving("add_cron_job")
        BY <2>1 DEF Risked
    <2> QED
        BY <1>1, <2>1, <2>2
<1>5. CronOverlap'
    <2>1. ASSUME NEW v \in Workers, NEW u \in Workers, v # u,
                 Doing(v, "add_cron_job")', Doing(u, "add_cron_job")'
          PROVE  worker'[u].entry \in exposed'
        <3>1. CASE v = w
            BY <1>1, <1>4, <2>1, <3>1 DEF Doing
        <3>2. CASE u = w
            BY <1>1, <1>2, <1>4, <2>1, <3>2 DEF Doing
        <3>3. CASE v # w /\ u # w
            <4>1. /\ Doing(v, "add_cron_job") /\ Doing(u, "add_cron_job")
                  /\ worker'[u] = worker[u]
                BY <1>1, <2>1, <3>3 DEF Doing
            <4> QED
                BY <1>4, <4>1
        <3> QED
            BY <3>1, <3>2, <3>3
    <2> QED
        BY <2>1 DEF CronOverlap
<1> QED
    BY <1>1, <1>2, <1>3, <1>5 DEF CronInv

-----------------------------------------------------------------------------
(* The zone                                                                *)

\* A request that adds a record has it in the file, or in the lines it is to
\* write back with all that must be kept.
Recording(w) ==
    Doing(w, "add_record") =>
        /\ worker[w].pc \in {2, 5} => worker[w].entry \in files["zonefile"] \cup exposed
        /\ worker[w].pc \in {3, 4} =>
            Safe \subseteq worker[w].lines /\ worker[w].entry \in worker[w].lines \cup exposed

\* Two of them put the whole zone at risk.
ZoneOverlap ==
    \A v, w \in Workers : v # w /\ Doing(v, "add_record") /\ Doing(w, "add_record") =>
        Records \subseteq exposed

\* What must be kept is in the file or about to be written back; it is served,
\* unless a load is due, or was prevented by a file named refuses, or the
\* request that rewrites the file will ask for one.
ZoneKept ==
    /\ Safe \subseteq files["zonefile"] \/ \E w \in Workers : Doing(w, "add_record") /\ worker[w].pc = 4
    /\ \/ Safe \subseteq index \/ queued \/ ~Loadable(files["zonefile"])
       \/ \E w \in Workers : Doing(w, "add_record") /\ worker[w].pc \in {4, 5}

ZoneInv ==
    /\ \A w \in Workers : Recording(w)
    /\ ZoneOverlap /\ ZoneKept /\ gone = {}

ZoneTypes ==
    /\ store = "zone" /\ acked \subseteq Records
    /\ \A w \in Workers : worker[w].op \in {"none", "add_record"}
    /\ \A w \in Workers : worker[w].op # "none" => worker[w].entry \in Records

LEMMA ZoneTyped == TypeInv /\ store = "zone" => ZoneTypes
<1> SUFFICES ASSUME TypeInv, store = "zone" PROVE ZoneTypes
    OBVIOUS
<1>1. Plain /\ \A w \in Workers : WorkerOK(w)
    BY TypeParts
<1>2. acked \subseteq Records
    BY <1>1, Stores DEF Plain
<1>3. \A w \in Workers : worker[w].op # "none" =>
            worker[w].op = "add_record" /\ worker[w].entry \in Records
    BY <1>1, Stores DEF WorkerOK
<1> QED
    BY <1>2, <1>3 DEF ZoneTypes

LEMMA ZoneLost ==
    ASSUME ZoneTypes', (Records \subseteq exposed)', (gone = {})'
    PROVE  ZoneInv'
<1>1. Safe' = {}
    BY DEF ZoneTypes, Safe
<1> QED
    BY <1>1 DEF ZoneInv, ZoneTypes, Recording, ZoneOverlap, ZoneKept, Doing

LEMMA ZoneOverlapKept ==
    ASSUME ZoneOverlap, NEW w \in Workers, Others(w), exposed \subseteq exposed',
           worker'[w].op = "none" \/ worker'[w].op = worker[w].op
    PROVE  ZoneOverlap'
BY DEF ZoneOverlap, Others, Doing

LEMMA ZoneAdds ==
    ASSUME ZoneTypes, ZoneTypes', ZoneInv, NEW w \in Workers,
           Doing(w, "add_record"), Adds(w)
    PROVE  ZoneInv'
<1> DEFINE e == worker[w].entry
           zf == files["zonefile"]
<1>1. /\ Others(w) /\ gone' = {} /\ exposed' = exposed /\ e \in Records
      /\ worker'[w].op = "none" \/ worker'[w].op = worker[w].op
    BY DEF Adds, Goes, Rests, Idle, ZoneInv, ZoneTypes, Doing, history
<1>2. CASE \E v \in Workers : v # w /\ Doing(v, "add_record")
    BY <1>1, <1>2, ZoneLost DEF ZoneInv, ZoneOverlap
<1>3. CASE \A v \in Workers : Doing(v, "add_record") => v = w
    <2>1. ZoneOverlap'
        BY <1>1, ZoneOverlapKept DEF ZoneInv
    <2>2. ASSUME NEW v \in Workers, v # w PROVE Recording(v)'
        BY <1>1, <1>3, <2>2 DEF Recording, Others, Doing
    <2>3. /\ worker[w].pc # 4 => Safe \subseteq zf
          /\ worker[w].pc \in {1, 2} => Safe \subseteq index \/ queued \/ ~Loadable(zf)
          /\ worker[w].pc \in {2, 5} => e \in zf \cup exposed
          /\ worker[w].pc \in {3, 4} =>
                Safe \subseteq worker[w].lines /\ e \in worker[w].lines \cup exposed
        BY <1>3 DEF ZoneInv, ZoneKept, Recording
    <2>4. Recording(w)' /\ ZoneKept' => ZoneInv'
        BY <1>1, <2>1, <2>2 DEF ZoneInv
    <2>5. CASE worker[w].pc = 1
        <3>1. /\ Goes(w, 2, worker[w].lines) /\ UNCHANGED <<index, queued>> /\ Safe' = Safe
              /\ files'["zonefile"] = zf \cup {e}
            BY <2>5 DEF Adds, history, Safe
        <3>2. Recording(w)'
            BY <3>1 DEF Recording, Goes
        <3>3. Loadable(zf \cup {e}) => Loadable(zf)
            BY <1>1, SOAAssumption DEF Loadable
        <3> QED
            BY <2>3, <2>4, <2>5, <3>1, <3>2, <3>3 DEF ZoneKept
    <2>6. CASE worker[w].pc = 2
        <3>1. Goes(w, 3, zf) /\ UNCHANGED <<files, index, queued>> /\ Safe' = Safe
            BY <2>6 DEF Adds, history, Safe
        <3>2. Recording(w)'
            BY <1>1, <2>3, <2>6, <3>1 DEF Recording, Goes
        <3> QED
            BY <2>3, <2>4, <2>6, <3>1, <3>2 DEF ZoneKept
    <2>7. CASE worker[w].pc = 3
        <3>1. Goes(w, 4, worker[w].lines) /\ Safe' = Safe
            BY <2>7 DEF Adds, history, Safe
        <3>2. Recording(w)'
            BY <1>1, <2>3, <2>7, <3>1 DEF Recording, Goes
        <3> QED
            BY <2>4, <3>1, <3>2 DEF ZoneKept, Goes, Doing
    <2>8. CASE worker[w].pc = 4
        <3>1. PICK rest \in SUBSET zf :
                /\ Goes(w, 5, worker[w].lines) /\ Safe' = Safe
                /\ files'["zonefile"] = worker[w].lines \cup rest
            BY <2>8 DEF Adds, history, Safe
        <3>2. Recording(w)'
            BY <1>1, <2>3, <2>8, <3>1 DEF Recording, Goes
        <3> QED
            BY <2>3, <2>4, <2>8, <3>1, <3>2 DEF ZoneKept, Goes, Doing
    <2>9. CASE worker[w].pc = 5
        <3>1. /\ worker'[w].op = "none" /\ files' = files /\ acked' = acked \cup {e} /\ queued'
            BY <2>9 DEF Adds, Rests, Idle
        <3>2. Safe' \subseteq zf
            BY <1>1, <2>3, <2>9, <3>1 DEF Safe
        <3>3. Recording(w)'
            BY <3>1 DEF Recording, Doing
        <3> QED
            BY <2>4, <3>1, <3>2, <3>3 DEF ZoneKept
    <2> QED
        BY <2>5, <2>6, <2>7, <2>8, <2>9 DEF Adds
<1> QED
    BY <1>2, <1>3

LEMMA ZoneDrops ==
    ASSUME ZoneTypes, ZoneTypes', ZoneInv, NEW w \in Workers, Drops(w)
    PROVE  ZoneInv'
<1>1. /\ Others(w) /\ worker'[w].op = "none" /\ UNCHANGED <<files, index, queued, acked, gone>>
      /\ exposed \subseteq exposed' /\ gone' = {}
    BY DEF Drops, Rests, Idle, ZoneInv
<1>2. CASE exposed' = exposed \cup Entries[store]
    <2>1. Records \subseteq exposed'
        BY <1>2, Stores DEF ZoneTypes
    <2> QED
        BY <1>1, <2>1, ZoneLost
<1>3. CASE exposed' = exposed /\ ~(worker[w].op = "add_record" /\ worker[w].pc \in {4, 5})
    <2>1. Safe' = Safe
        BY <1>1, <1>3 DEF Safe
    <2>2. ZoneOverlap'
        BY <1>1, ZoneOverlapKept DEF ZoneInv
    <2>3. ASSUME NEW v \in Workers PROVE Recording(v)'
        BY <1>1, <1>3, <2>1 DEF ZoneInv, Recording, Doing, Others
    <2>4. ASSUME NEW v \in Workers, Doing(v, "add_record") /\ worker[v].pc \in {4, 5}
          PROVE  Doing(v, "add_record")' /\ worker'[v].pc = worker[v].pc
        BY <1>1, <1>3, <2>4 DEF Doing, Others
    <2>5. ZoneKept'
        BY <1>1, <2>1, <2>4 DEF ZoneInv, ZoneKept
    <2> QED
        BY <1>1, <2>2, <2>3, <2>5 DEF ZoneInv
<1> QED
    BY <1>2, <1>3 DEF Drops

LEMMA ZoneStands ==
    ASSUME ZoneInv, Stands
    PROVE  ZoneInv'
<1>1. Safe' = Safe
    BY DEF Stands, Safe
<1>2. ASSUME NEW v \in Workers PROVE Recording(v)'
    BY <1>1 DEF ZoneInv, Stands, Recording, Doing
<1>3. ZoneOverlap'
    BY DEF ZoneInv, Stands, ZoneOverlap, Doing
<1>4. ZoneKept'
    BY <1>1 DEF ZoneInv, Stands, ZoneKept, Doing
<1> QED
    BY <1>2, <1>3, <1>4 DEF ZoneInv, Stands

LEMMA ZoneStarts ==
    ASSUME ZoneTypes, ZoneTypes', ZoneInv, NEW w \in Workers, NEW e \in Records,
           Starts(w, "add_record", e)
    PROVE  ZoneInv'
<1>1. /\ Safe' \subseteq Safe
      /\ Busy # {} => exposed \subseteq exposed' /\ Risked("add_record", e) \subseteq exposed'
      /\ Busy = {} => \A v \in Workers : worker[v].op = "none"
      /\ \A v \in Workers \ {w} : worker'[v] = worker[v]
    BY Fresh, Zenon
<1>2. /\ worker'[w].op = "add_record" /\ worker'[w].entry = e /\ worker'[w].pc = 1
      /\ UNCHANGED <<files, index, queued>> /\ worker[w].op = "none" /\ gone' = {}
    BY DEF Starts, Busy, ZoneInv
<1>3. CASE Busy # {}
    <2>1. Records \subseteq exposed'
        BY <1>1, <1>3 DEF Risked
    <2> QED
        BY <1>2, <2>1, ZoneLost
<1>4. CASE Busy = {}
    <2>1. \A v \in Workers : worker[v].op = "none"
        BY <1>1, <1>4
    <2>2. ASSUME NEW v \in Workers PROVE Recording(v)'
        BY <1>1, <1>2, <2>1 DEF Recording, Doing
    <2>3. ZoneOverlap'
        BY <1>1, <1>2, <2>1 DEF ZoneOverlap, Doing
    <2>4. ZoneKept'
        BY <1>1, <1>2, <2>1 DEF ZoneInv, ZoneKept, Doing
    <2> QED
        BY <1>2, <2>2, <2>3, <2>4 DEF ZoneInv
<1> QED
    BY <1>3, <1>4

\* named loads what must be kept, or nothing.
LEMMA ZoneLoads ==
    ASSUME ZoneInv, LoadZone
    PROVE  ZoneInv'
<1>1. /\ UNCHANGED <<files, worker, acked, gone, exposed>> /\ Safe' = Safe
      /\ index' = IF Loadable(files["zonefile"]) THEN files["zonefile"] ELSE index
    BY DEF LoadZone, history, Safe
<1>2. ASSUME NEW v \in Workers PROVE Recording(v)'
    BY <1>1 DEF ZoneInv, Recording, Doing
<1>3. ZoneOverlap'
    BY <1>1 DEF ZoneInv, ZoneOverlap, Doing
<1>4. ZoneKept'
    BY <1>1 DEF ZoneInv, ZoneKept, Doing
<1> QED
    BY <1>1, <1>2, <1>3, <1>4 DEF ZoneInv

-----------------------------------------------------------------------------
(* The safety properties                                                   *)

IInv ==
    /\ TypeInv
    /\ store = "mail" => MailInv
    /\ store = "cron" => CronInv
    /\ store = "zone" => ZoneInv

LEMMA InitInv == Init => IInv
<1> SUFFICES ASSUME Init PROVE IInv
    OBVIOUS
<1>1. \A w \in Workers : worker[w].op = "none"
    BY DEF Init, Idle
<1>2. TypeInv /\ acked = {} /\ gone = {} /\ exposed = {}
    BY InitType DEF Init
<1>3. Safe = {} /\ Gone = {}
    BY <1>2 DEF Safe, Gone
<1>4. MailInv
    BY <1>1, <1>3 DEF MailInv, Creating, Removing, Doing, MailOverlap, MailKept, MailGone
<1>5. CronInv
    BY <1>1, <1>2, <1>3 DEF CronInv, Scheduling, Doing, CronOverlap
<1>6. ZoneInv
    BY <1>1, <1>2, <1>3 DEF ZoneInv, Recording, Doing, ZoneOverlap, ZoneKept
<1> QED
    BY <1>2, <1>4, <1>5, <1>6 DEF IInv

LEMMA NextInv ==
    ASSUME IInv, [Next]_vars
    PROVE  IInv'
<1>1. TypeInv /\ store \in {"mail", "cron", "zone"}
    BY Stores DEF IInv, TypeInv, TypeOK
<1>2. TypeInv' /\ store' = store
    <2>1. CASE UNCHANGED vars
        BY <1>1, <2>1 DEF vars, TypeInv, TypeOK, WorkerOK
    <2>2. CASE Next
        <3>0. CASE LoadZone
            BY <1>1, <3>0, LoadType DEF LoadZone
        <3>1. ASSUME ~LoadZone
              PROVE  \E w \in Workers :
                \/ Step(w) \/ ToolHangs(w) \/ WorkerDies(w)
                \/ \E op \in Operations[store], e \in Entries[store] : Begin(w, op, e)
            BY <2>2, <3>1 DEF Next
        <3>2. ASSUME NEW w \in Workers, Step(w) \/ ToolHangs(w) \/ WorkerDies(w)
              PROVE  TypeInv' /\ store' = store
            <4>1. TypeInv'
                BY <1>1, <3>2, StepType
            <4>2. store' = store
                BY <3>2 DEF Step, AppendLine, ReadLines, Truncate, Write, ListCrontab, Run,
                    InstallCrontab, ToolFails, KillHung, ToolHangs, WorkerDies, End
            <4> QED
                BY <4>1, <4>2
        <3>3. ASSUME NEW w \in Workers,
                     \E op \in Operations[store], e \in Entries[store] : Begin(w, op, e)
              PROVE  TypeInv' /\ store' = store
            BY <1>1, <3>3, BeginType DEF Begin
        <3> QED
            BY <3>0, <3>1, <3>2, <3>3
    <2> QED
        BY <2>1, <2>2
<1>3. /\ store = "mail" => MailTypes /\ MailTypes' /\ MailInv
      /\ store = "cron" => CronTypes /\ CronTypes' /\ CronInv
      /\ store = "zone" => ZoneTypes /\ ZoneTypes' /\ ZoneInv
    <2>1. (TypeInv /\ store = "mail" => MailTypes)'
        BY MailTyped, PTL
    <2>2. (TypeInv /\ store = "cron" => CronTypes)'
        BY CronTyped, PTL
    <2>3. (TypeInv /\ store = "zone" => ZoneTypes)'
        BY ZoneTyped, PTL
    <2> QED
        BY <1>1, <1>2, <2>1, <2>2, <2>3, MailTyped, CronTyped, ZoneTyped DEF IInv
<1>4. ASSUME Stands PROVE IInv'
    BY <1>2, <1>3, <1>4, MailStands, CronStands, ZoneStands DEF IInv
<1>5. ASSUME NEW w \in Workers, w \in Busy, End(w) PROVE IInv'
    <2>1. Drops(w)
        BY <1>1, <1>5, Ending
    <2> QED
        BY <1>2, <1>3, <2>1, MailDrops, CronDrops, ZoneDrops DEF IInv
<1>6. ASSUME NEW w \in Workers, Handler(w) PROVE IInv'
    <2>1. CASE store = "mail" /\ worker[w].op = "create_mailbox" /\ Creates(w)
        BY <1>2, <1>3, <2>1, MailCreates DEF IInv, Doing
    <2>2. CASE store = "mail" /\ worker[w].op = "delete_mailbox" /\ Deletes(w)
        BY <1>2, <1>3, <2>2, MailDeletes DEF IInv, Doing
    <2>3. CASE store = "cron" /\ worker[w].op = "add_cron_job" /\ Schedules(w)
        BY <1>2, <1>3, <2>3, CronSchedules DEF IInv, Doing
    <2>4. CASE store = "zone" /\ worker[w].op = "add_record" /\ Adds(w)
        BY <1>2, <1>3, <2>4, ZoneAdds DEF IInv, Doing
    <2> QED
        BY <1>6, <2>1, <2>2, <2>3, <2>4 DEF Handler
<1>7. ASSUME NEW w \in Workers, NEW op \in Operations[store], NEW e \in Entries[store],
             Begin(w, op, e)
      PROVE  IInv'
    <2>1. Starts(w, op, e)
        BY <1>1, <1>7, Starting
    <2>2. CASE store = "mail"
        <3>1. op \in {"create_mailbox", "delete_mailbox"} /\ e \in Mailboxes
            BY <2>2, Stores
        <3> QED
            BY <1>2, <1>3, <2>1, <2>2, <3>1, MailStarts DEF IInv
    <2>3. CASE store = "cron"
        <3>1. op = "add_cron_job" /\ e \in Jobs
            BY <2>3, Stores
        <3> QED
            BY <1>2, <1>3, <2>1, <2>3, <3>1, CronStarts DEF IInv
    <2>4. CASE store = "zone"
        <3>1. op = "add_record" /\ e \in Records
            BY <2>4, Stores
        <3> QED
            BY <1>2, <1>3, <2>1, <2>4, <3>1, ZoneStarts DEF IInv
    <2> QED
        BY <1>1, <2>2, <2>3, <2>4
<1>8. CASE UNCHANGED vars
    <2>1. Stands
        BY <1>8 DEF vars, Stands
    <2> QED
        BY <1>4, <2>1
<1>9. CASE LoadZone
    <2>1. store = "zone"
        BY <1>1, <1>9, LoadType
    <2> QED
        BY <1>2, <1>3, <1>9, <2>1, ZoneLoads DEF IInv
<1>10. CASE Next /\ ~LoadZone
    <2>1. PICK w \in Workers :
            \/ Step(w) \/ ToolHangs(w) \/ WorkerDies(w)
            \/ \E op \in Operations[store], e \in Entries[store] : Begin(w, op, e)
        BY <1>10 DEF Next
    <2>2. CASE Step(w)
        <3>1. w \in Busy /\ (Handler(w) \/ End(w))
            BY <1>1, <2>2, Handling
        <3> QED
            BY <1>5, <1>6, <3>1
    <2>3. CASE ToolHangs(w)
        BY <1>1, <1>4, <2>3, Hanging
    <2>4. CASE WorkerDies(w)
        BY <1>5, <2>4 DEF WorkerDies
    <2> QED
        BY <1>7, <2>1, <2>2, <2>3, <2>4
<1> QED
    BY <1>8, <1>9, <1>10

LEMMA SpecInv == Spec => []IInv
BY InitInv, NextInv, PTL DEF Spec

LEMMA KeptByInv == IInv => AcknowledgedKept
<1> SUFFICES ASSUME IInv, NEW e \in acked \ exposed, NEW f \in Files[store]
             PROVE  e \in files[f] \/ Truncated(f)
    BY DEF AcknowledgedKept
<1>1. TypeInv /\ e \in Safe /\ store \in {"mail", "cron", "zone"}
    BY Stores DEF IInv, TypeInv, TypeOK, Safe
<1>2. CASE store = "mail"
    <2>1. f \in {"passwd", "vmailbox"}
        BY <1>2, Stores
    <2>2. e \in files[f] \/ MailCut(f)
        BY <1>1, <1>2, <2>1 DEF IInv, MailInv, MailKept
    <2>3. MailCut(f) => Truncated(f)
        BY <1>1, Holding DEF MailCut, Doing, Truncated
    <2> QED
        BY <2>2, <2>3
<1>3. CASE store = "cron"
    BY <1>1, <1>3, Stores DEF IInv, CronInv
<1>4. CASE store = "zone"
    <2>1. f = "zonefile"
        BY <1>4, Stores
    <2>2. e \in files[f] \/ \E w \in Workers : Doing(w, "add_record") /\ worker[w].pc = 4
        BY <1>1, <1>4, <2>1 DEF IInv, ZoneInv, ZoneKept
    <2>3. (\E w \in Workers : Doing(w, "add_record") /\ worker[w].pc = 4) => Truncated(f)
        BY <1>1, <2>1, Holding DEF Doing, Truncated
    <2> QED
        BY <2>2, <2>3
<1> QED
    BY <1>1, <1>2, <1>3, <1>4

LEMMA ServedByInv == IInv => AcknowledgedServed
<1> SUFFICES ASSUME IInv, NEW e \in acked \ exposed
             PROVE  CASE store = "cron" -> TRUE
                      [] store = "mail" -> Deleting \/ e \in index
                      [] store = "zone" -> \/ e \in index \/ queued
                                           \/ Serving("add_record") # {}
                                           \/ ~Loadable(files["zonefile"])
    BY DEF AcknowledgedServed
<1>1. TypeInv /\ e \in Safe /\ store \in {"mail", "cron", "zone"}
    BY Stores DEF IInv, TypeInv, TypeOK, Safe
<1>2. store = "mail" => Deleting \/ e \in index
    <2>1. (\E w \in Workers : Doing(w, "delete_mailbox")) => Deleting
        BY DEF Deleting, Serving, Busy, Doing
    <2> QED
        BY <1>1, <2>1 DEF IInv, MailInv, MailKept
<1>3. store = "zone" => \/ e \in index \/ queued \/ Serving("add_record") # {}
                        \/ ~Loadable(files["zonefile"])
    <2>1. (\E w \in Workers : Doing(w, "add_record")) => Serving("add_record") # {}
        BY DEF Serving, Busy, Doing
    <2> QED
        BY <1>1, <2>1 DEF IInv, ZoneInv, ZoneKept
<1> QED
    BY <1>1, <1>2, <1>3

LEMMA DeletedByInv == IInv => DeletedGone
<1> SUFFICES ASSUME IInv, NEW e \in gone \ exposed
             PROVE  e \notin index /\ \A f \in Files[store] : e \notin files[f]
    BY DEF DeletedGone
<1>1. e \in Gone /\ store = "mail"
    BY Stores DEF IInv, TypeInv, TypeOK, CronInv, ZoneInv, Gone
<1> QED
    BY <1>1, Stores DEF IInv, MailInv, MailGone

\* A mailbox, a job or a record the panel said it has added is in every file
\* of its store, unless another request has that file truncated: whichever of
\* the four handlers the workers interleave, however they end, as long as
\* nothing puts it at risk.
THEOREM SpecAcknowledgedKept == Spec => []AcknowledgedKept
BY SpecInv, KeptByInv, PTL

\* It is served too: postmap's table keeps up with the files, although other
\* requests rewrite them in between, and named never ends up without a record
\* that is in a zone file it would take.
THEOREM SpecAcknowledgedServed == Spec => []AcknowledgedServed
BY SpecInv, ServedByInv, PTL

\* A deleted mailbox does not come back from the lines another request has
\* read, unless that request overlapped the deletion.
THEOREM SpecDeletedGone == Spec => []DeletedGone
BY SpecInv, DeletedByInv, PTL

=============================================================================
