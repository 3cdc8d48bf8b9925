-------------------------- MODULE MCLeadershipTime --------------------------
(* Three nodes with stays of up to 3.  Node 0 computes, with any time left and
   either the first or the last to arrive; the others have all their time or
   the last unit of it.  The queues are those the server can publish for the
   three, in which only the last element may repeat another. *)
EXTENDS LeadershipTime

MCStay == {e \in [arrival_time : 0..1, sgx_time : 1..SgxMax, time_left : 0..SgxMax] :
             e.time_left <= e.sgx_time}
MCTable == {t \in [Node -> MCStay] :
              /\ \A n \in Node \ {0} : t[n].time_left \in {1, t[n].sgx_time}
              /\ t[1].arrival_time = 0}
MCQueue == UNION {{s \in [1..n -> Node] :
                     \A k, l \in 1..(n - 1) : s[k] = s[l] => k = l} : n \in 1..(N + 1)}
MCCurrent == {0}
MCDelay == {1}

=============================================================================
