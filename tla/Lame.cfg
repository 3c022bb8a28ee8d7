SPECIFICATION FairSpec
CONSTANTS
    Base = Base
    Robot = Robot
    Nowhere = Nowhere
    Ai = Ai
    Halt = Halt
    Idle = Idle
    Choices = {"Remote"}
INVARIANT ConnectedRobotObeys
PROPERTY RemoteConnects
