------------------------------ MODULE MCXQueueIo ------------------------------
(***************************************************************************)
(* Instances of XQueueIo for TLC.                                          *)
(***************************************************************************)
EXTENDS XQueueIo

\* With permits that are never reached, and with an overflow at five messages and
\* no second try when more than one waits; one message at a time, and two.
Permits(side, test, wait, buffer, most) ==
    [main |-> side, m_uiTest |-> test, m_uiWaitPermit |-> wait, m_uiBufferPermit |-> buffer,
     m_uiMaxQuoPerWrite |-> most]

MCConfigs == {Permits("writer", 0, 9, 9, 1), Permits("reader", 0, 1, 5, 1),
              Permits("reader", 1, 9, 9, 2), Permits("writer", 1, 1, 5, 2)}
=============================================================================
