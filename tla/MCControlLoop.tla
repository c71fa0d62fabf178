--------------------------- MODULE MCControlLoop ---------------------------
(* Instances of ControlLoop: two applications with one guaranteed replica  *)
(* each on a cluster of two or three GPUs, and what their metrics may show: *)
(* nothing to act on, a latency above the SLA, a long queue, no load.      *)
EXTENDS ControlLoop

MCMinReplicas == [a \in Apps |-> 1]
MCMaxP99TTFT == [a \in Apps |-> 100]

calm    == [queue |-> 3, batch |-> 50, maxKVCache |-> 50, avgKVCache |-> 50, ttft |-> 50]
idle    == [queue |-> 0, batch |-> 5, maxKVCache |-> 5, avgKVCache |-> 5, ttft |-> 10]
pressed == [calm EXCEPT !.queue = 11]
slow    == [calm EXCEPT !.ttft = 150]
MCCalm == {calm}
MCSlow == {calm, slow}
MCIdle == {pressed, idle}

=============================================================================
