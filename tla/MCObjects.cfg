SPECIFICATION Spec
CONSTANTS
    a = a
    b = b
    c = c
    Kinds = {"sem", "event", "mb", "mb3", "mq", "urgent", "mq3"}
    Idle = idle
    NoThread = NoThread
    Threads = {idle, a, b, c}
    NPrio = 3
    Waits = {"sem", "event", "mb", "mbSend", "mq", "mqSend"}
    PrioWaits = {"sem", "event", "mb", "mbSend"}
    BasePrio <- MCBasePrio
    Sem = "sem"
    MaxValue = 2
    Event = "event"
    Bits = {m1, m2}
    MbReceivers = "mb"
    MbSenders = "mbSend"
    MbSize = 2
    Mails = {m1, m2, m3}
    NoMail = NoMail
    MqReceivers = "mq"
    MqSenders = "mqSend"
    Nodes = {n1, n2, n3}
    NoNode = NoNode
    Letters = {m1, m2, m3}
    MqPrios = {0, 1}
    NoLetter = NoLetter
SYMMETRY Symmetry
INVARIANTS EvNoneLeft MbNoLostWakeup NodesConserved MqNoLostWakeup
PROPERTIES SemImplements EvTold EvConsumed MbImplements MqImplements
