SPECIFICATION MCSpec
CONSTANTS u1 = u1
          u2 = u2
          NoName = NoName
          MetaFile = MetaFile
          NoData = NoData
          Anything = Anything
          Nobody = Nobody
          Ping = Ping
          NoReq = NoReq
PROPERTIES IOReturns VolumeTasksEnd AgentTasksEnd 
CHECK_DEADLOCK FALSE
