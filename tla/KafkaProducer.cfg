CONSTANTS
    forwarder = forwarder  retrier = retrier  t1 = t1  t2 = t2  NoTopic = NoTopic
    Callers = {forwarder, retrier}
    Topics = {t1, t2}
SPECIFICATION Spec
INVARIANTS TypeOK
PROPERTIES OneRequestBeforeRetry KeepsSendContract EveryCallReturns
