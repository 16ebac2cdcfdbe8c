--------------------------- MODULE ThreadedExecutor ---------------------------
(* A thread that runs the work other threads send to it, one item at a time.    *)
(* An executor is a value: its queue and RunThread.  The loop that runs the work *)
(* belongs to the module that knows what the work does.                          *)
EXTENDS WorkQueue

NewExecutor(Producer) == [work |-> NoWork(Producer), running |-> TRUE]

\* Defect: new work overtakes the work that waits.
SendUrgentWork(e, p, item) == [e EXCEPT !.work[p] = <<item>> \o @]

SendWork(e, p, item) == [e EXCEPT !.work = Enqueue(@, p, item)]

\* The producers the loop may take its next item from, that item, and what is
\* left; a stopped loop takes nothing.
Available(e)  == IF e.running THEN Waiting(e.work) ELSE {}
NextWork(e, p) == Oldest(e.work, p)
TakeWork(e, p) == [e EXCEPT !.work = Dequeue(@, p)]

\* The item the destructor sends before it joins the thread.
Stop(e) == [e EXCEPT !.running = FALSE]

\* The queue's destruction, with the work in it.
DropWork(e) == [e EXCEPT !.work = NoWork(DOMAIN @)]
=============================================================================
