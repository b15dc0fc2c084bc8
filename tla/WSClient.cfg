SPECIFICATION FairSpec
CONSTANT max_retries = 3
INVARIANTS RetriesBounded ConnectedIsOpen 
PROPERTIES LossIsNoticed QuitEnds
