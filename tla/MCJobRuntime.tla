---- MODULE MCJobRuntime ----
EXTENDS JobRuntime, TLC

\* Sessions and cancel requests are interchangeable; runs are not (FirstRun).
Symmetry == Permutations(Lives) \cup Permutations(Cancels)

\* Everything a peer may say; the messages that start a job; those that negotiate.
AllMail   == [send    |-> {"accepted", "answer", "started", "progress", "retryable", "completed",
                           "failed"},
              receive |-> {"offer", "webrtc_offer", "started", "retryable", "completed",
                           "cancelled"}]
StartMail == [receive |-> {"offer", "webrtc_offer", "started"}]
DialMail  == [send |-> {"accepted", "answer"}]
====
