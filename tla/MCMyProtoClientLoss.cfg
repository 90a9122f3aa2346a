\* The application queues nothing in the loop: it neither stops nor, like
\* client_main.cpp (12-16), calls sendMessage while it is not connected.
SPECIFICATION FairSpec
CONSTANTS
  MaxConns = 2
  MaxFunctors = 0
PROPERTY LossIsRepaired
CHECK_DEADLOCK FALSE
