SPECIFICATION MemSpec
CONSTANTS
  fifo = fifo
  pri = pri
  Null = Null
  Groups = {1, 2}
  GroupSize <- MCGroupSize
  Count <- MCCount
  Margin = 8
  Sizes = {16, 17, 53}
  Queues <- MCQueues
  PriQueues <- MCPriQueues
  Prio <- MCPrio
INVARIANTS FreeSound QueueSound PriorityFifo
